---- MODULE Spec2Model ----
(***************************************************************************)
(* Fake-news analysis backend: the request pipeline of NewsService         *)
(* (validate, scrape, predict, enrich, save), the in-memory prediction     *)
(* repository behind its RWMutex, and the HTTP handlers in front of them.  *)
(*                                                                         *)
(* Go strings are modelled as sequences of tokens (a token stands for an   *)
(* indivisible run of characters), so "" is << >>.  Floating point         *)
(* confidences are modelled in hundredths (0.92 is 92).  A reading of       *)
(* time.Now() is any instant not earlier than the goroutine's previous     *)
(* reading.  uuid.New() is a fresh value drawn from a counter.             *)
(***************************************************************************)
EXTENDS Integers, Sequences, FiniteSets, TLC

(***************************************************************************)
(* Bounds of the model                                                     *)
(***************************************************************************)
\* number of inbound HTTP requests, each served by its own goroutine
NumReqs == 2

Workers == 1..NumReqs

\* longest URL string tried, in tokens
MaxURLLen == 5

(***************************************************************************)
(* Strings                                                                 *)
(***************************************************************************)
EmptyStr == << >>

Str(tok) == <<tok>>

\* strings.ToLower on one token
ToLowerTok(t) ==
  CASE t = "HTTP" -> "http"
    [] t = "HTTPS" -> "https"
    [] t = "SCRIPT" -> "script"
    [] t = "STYLE" -> "style"
    [] OTHER -> t

ToLower(s) == [i \in 1..Len(s) |-> ToLowerTok(s[i])]

\* tokens made of ASCII letters only
AlphaToks == {"http", "https", "ftp", "HTTP", "HTTPS", "h", "p", "X", "not", "a", "url"}

\* s[from..] (1-based), empty when from is past the end
Drop(s, from) == SubSeq(s, from, Len(s))

\* strings.HasPrefix
HasPrefix(s, pre) == Len(s) >= Len(pre) /\ SubSeq(s, 1, Len(pre)) = pre

\* strings.Index: 0-based position of the first occurrence of sub in s, or -1
Index(s, sub) ==
  LET hits == {i \in 1..(Len(s) - Len(sub) + 1) : SubSeq(s, i, i + Len(sub) - 1) = sub}
  IN IF hits = {} THEN -1
     ELSE (CHOOSE i \in hits : \A j \in hits : i <= j) - 1

(***************************************************************************)
(* internal/domain: errors                                                 *)
(***************************************************************************)
\* An error value.  sentinel names the package-level variable the error is or
\* wraps ("" for an error built by fmt.Errorf without %w), wrapped says whether
\* it is a new value produced by fmt.Errorf around it, status is the HTTP
\* status code formatted into the message (0 when there is none), msg is the
\* text the message starts with (a sentinel's text is written as its name),
\* detail is the text formatted after it: the message of the underlying
\* cause, printed with %v, or a fixed phrase ("" when there is none).
NoErr ==
  [sentinel |-> "nil", wrapped |-> FALSE, status |-> 0, msg |-> "", detail |-> ""]

Sentinel(name) ==
  [sentinel |-> name, wrapped |-> FALSE, status |-> 0, msg |-> name, detail |-> ""]

ErrInvalidRequestType == Sentinel("ErrInvalidRequestType")
ErrEmptyContent == Sentinel("ErrEmptyContent")
ErrURLScrapingFailed == Sentinel("ErrURLScrapingFailed")
ErrMLServiceUnavailable == Sentinel("ErrMLServiceUnavailable")
ErrPredictionFailed == Sentinel("ErrPredictionFailed")
ErrInvalidURL == Sentinel("ErrInvalidURL")

\* fmt.Errorf("%w: ...", sentinel, ...)
Wrap(err, code) ==
  [sentinel |-> err.sentinel, wrapped |-> TRUE, status |-> code, msg |-> err.msg,
   detail |-> ""]

\* fmt.Errorf("%w: %v", sentinel, cause) and fmt.Errorf("%w: phrase", sentinel)
WrapDetail(err, text) == [Wrap(err, 0) EXCEPT !.detail = text]

\* fmt.Errorf(msg) without %w
Errorf(msg) ==
  [sentinel |-> "", wrapped |-> TRUE, status |-> 0, msg |-> msg, detail |-> ""]

\* an error of a repository other than the in-memory one
PlainError == Errorf("save failed")

\* errors.Is(err, target)
ErrorsIs(err, target) == err # NoErr /\ err.sentinel = target.sentinel

(***************************************************************************)
(* internal/domain: AnalysisRequest                                        *)
(***************************************************************************)
\* Validate without its check of the content
ValidateSkipsEmpty(r) ==
  IF r.Type # "text" /\ r.Type # "url" THEN ErrInvalidRequestType
  ELSE NoErr

Validate(r) ==
  IF r.Type # "text" /\ r.Type # "url" THEN ErrInvalidRequestType
  ELSE IF r.Content = EmptyStr THEN ErrEmptyContent
  ELSE NoErr

(***************************************************************************)
(* internal/service/scraper_service.go: URL validation                     *)
(***************************************************************************)
\* net/url getScheme: the letters before the first ':' are the scheme; a ':'
\* in first position is an error; any other character before a ':' means
\* there is no scheme.  Result: [err, scheme, rest].
RECURSIVE SchemeEnd(_, _)
SchemeEnd(s, i) ==
  IF i > Len(s) THEN 0
  ELSE IF s[i] \in AlphaToks THEN SchemeEnd(s, i + 1)
  ELSE IF s[i] = ":" THEN i
  ELSE 0

getScheme(s) ==
  LET i == SchemeEnd(s, 1)
  IN IF i = 1 THEN [err |-> TRUE, scheme |-> EmptyStr, rest |-> EmptyStr]
     ELSE IF i = 0 THEN [err |-> FALSE, scheme |-> EmptyStr, rest |-> s]
     ELSE [err |-> FALSE, scheme |-> SubSeq(s, 1, i - 1), rest |-> Drop(s, i + 1)]

\* the part of s before its first "/" (all of s when it has none)
FirstSegment(s) ==
  LET i == Index(s, Str("/")) IN IF i = -1 THEN s ELSE SubSeq(s, 1, i)

Contains(s, tok) == \E i \in 1..Len(s) : s[i] = tok

\* net/url Parse, for strings without '#', '?', '@', '%' and control bytes:
\* [err, Scheme, Host].
urlParse(s) ==
  LET g == getScheme(s)
      scheme == ToLower(g.scheme)
      rest == g.rest
      fail == [err |-> TRUE, Scheme |-> EmptyStr, Host |-> EmptyStr]
  IN IF s = EmptyStr THEN [err |-> FALSE, Scheme |-> EmptyStr, Host |-> EmptyStr]
     ELSE IF g.err THEN fail
     ELSE IF ~HasPrefix(rest, Str("/"))
       THEN IF scheme # EmptyStr
              THEN \* opaque URL
                   [err |-> FALSE, Scheme |-> scheme, Host |-> EmptyStr]
              ELSE IF Contains(FirstSegment(rest), ":")
                     THEN fail  \* first path segment cannot contain colon
                     ELSE [err |-> FALSE, Scheme |-> scheme, Host |-> EmptyStr]
     ELSE IF (scheme # EmptyStr \/ ~HasPrefix(rest, <<"/", "/", "/">>))
             /\ HasPrefix(rest, <<"/", "/">>)
       THEN LET authority == FirstSegment(Drop(rest, 3))
            IN IF Contains(authority, " ")
                 THEN fail  \* invalid character in host name
                 ELSE [err |-> FALSE, Scheme |-> scheme, Host |-> authority]
     ELSE [err |-> FALSE, Scheme |-> scheme, Host |-> EmptyStr]

\* isValidURL without its check of the host
isValidURLNoHostCheck(urlStr) ==
  LET u == urlParse(urlStr)
  IN IF u.err THEN FALSE
     ELSE IF u.Scheme # Str("http") /\ u.Scheme # Str("https") THEN FALSE
     ELSE TRUE

isValidURL(urlStr) ==
  LET u == urlParse(urlStr)
  IN IF u.err THEN FALSE
     ELSE IF u.Scheme # Str("http") /\ u.Scheme # Str("https") THEN FALSE
     ELSE IF u.Host = EmptyStr THEN FALSE
     ELSE TRUE

(***************************************************************************)
(* internal/service/scraper_service.go: text extraction                    *)
(***************************************************************************)
RECURSIVE removeTagsWithContent(_, _)
removeTagsWithContent(html, tag) ==
  LET startTag == <<"<", tag>>
      endTag == <<"<", "/", tag, ">">>
      start == Index(ToLower(html), startTag)
  IN IF start = -1 THEN html
     ELSE LET end == Index(ToLower(Drop(html, start + 1)), endTag)
          IN IF end = -1 THEN html
             ELSE removeTagsWithContent(
                    SubSeq(html, 1, start) \o Drop(html, start + end + Len(endTag) + 1),
                    tag)

\* the loop over the characters: a '<' opens a tag and writes a space, a '>'
\* closes it, everything outside a tag is copied
RECURSIVE StripTags(_, _, _)
StripTags(html, i, inTag) ==
  IF i > Len(html) THEN EmptyStr
  ELSE IF html[i] = "<" THEN Str(" ") \o StripTags(html, i + 1, TRUE)
  ELSE IF html[i] = ">" THEN StripTags(html, i + 1, FALSE)
  ELSE IF ~inTag THEN Str(html[i]) \o StripTags(html, i + 1, inTag)
  ELSE StripTags(html, i + 1, inTag)

\* strings.Join(strings.Fields(text), " "): whitespace runs become one space,
\* leading and trailing whitespace goes
RECURSIVE JoinFields(_, _, _)
JoinFields(text, i, pendingSpace) ==
  IF i > Len(text) THEN EmptyStr
  ELSE IF text[i] = " " THEN JoinFields(text, i + 1, TRUE)
  ELSE (IF pendingSpace THEN Str(" ") ELSE EmptyStr)
       \o Str(text[i]) \o JoinFields(text, i + 1, FALSE)

RECURSIVE FirstNonSpace(_, _)
FirstNonSpace(text, i) ==
  IF i > Len(text) \/ text[i] # " " THEN i ELSE FirstNonSpace(text, i + 1)

CollapseWhitespace(text) ==
  LET k == FirstNonSpace(text, 1)
  IN IF k > Len(text) THEN EmptyStr
     ELSE Str(text[k]) \o JoinFields(text, k + 1, FALSE)

extractTextFromHTML(html) ==
  LET h1 == removeTagsWithContent(html, "script")
      h2 == removeTagsWithContent(h1, "style")
  IN CollapseWhitespace(StripTags(h2, 1, FALSE))

(***************************************************************************)
(* internal/service/ml_client.go: the delegate's answer                    *)
(***************************************************************************)
\* A response body is either a JSON object (valid, with the fields it has) or
\* something json.Unmarshal rejects.
Field(f, k, zero) == IF k \in DOMAIN f THEN f[k] ELSE zero

\* json.Unmarshal(body, &mlResp) with its error discarded: on a body that does
\* not parse mlResp keeps its zero value; a missing key leaves the zero value.
Unmarshal(body) ==
  IF ~body.valid
    THEN [Result |-> EmptyStr, Confidence |-> 0, ModelVersion |-> EmptyStr]
    ELSE [Result |-> Field(body.fields, "result", EmptyStr),
          Confidence |-> Field(body.fields, "confidence", 0),
          ModelVersion |-> Field(body.fields, "model_version", EmptyStr)]

(***************************************************************************)
(* Inputs                                                                  *)
(***************************************************************************)
URLOk == <<"http", ":", "/", "/", "h">>
NotAURL == <<"not", " ", "a", " ", "url">>

Contents == {EmptyStr, Str("X"), URLOk, NotAURL}

\* the requests and delegate answers of the runs that exercise the store
\* under concurrency
ConcRequests == {[Type |-> "text", Content |-> Str("X")]}

Requests == [Type : {"text", "url", "video"}, Content : Contents]

\* the instants time.Now() can return, in milliseconds
Times == {1, 2}

After(t) == {u \in Times : u >= t}

UUIDString(n) == <<"uuid", n>>

\* the id query parameter of GET /api/predictions
GetIDs == {EmptyStr} \cup {UUIDString(n) : n \in 1..NumReqs}

ArticlePage ==
  <<"<", "article", ">", "<", "p", ">", "Hello", " ", "world",
    "<", "/", "p", ">", "<", "/", "article", ">">>
ScriptOnlyPage == <<"<", "SCRIPT", ">", "x", "<", "/", "script", ">", " ">>

Pages == {ArticlePage, ScriptOnlyPage}

\* what the fetch of a page can come back with: a transport error (timeout,
\* refused connection, redirect limit), a response whose body cannot be read,
\* or a response with a status and a body
FetchOutcomes ==
  {[kind |-> "error", status |-> 0, body |-> EmptyStr, cause |-> "connection refused"],
   [kind |-> "bodyerror", status |-> 200, body |-> EmptyStr],
   [kind |-> "response", status |-> 404, body |-> EmptyStr]}
  \cup {[kind |-> "response", status |-> 200, body |-> b] : b \in Pages}

FakeBody ==
  [valid |-> TRUE,
   fields |-> [result |-> Str("FAKE"), confidence |-> 92, model_version |-> Str("v1")]]
RealBody ==
  [valid |-> TRUE, fields |-> [result |-> Str("REAL"), confidence |-> 8]]
GarbageBody == [valid |-> FALSE, fields |-> << >>]

\* what the POST to the delegate can come back with
DelegateOutcomes ==
  {[kind |-> "error", status |-> 0, body |-> GarbageBody, cause |-> "connection refused"],
   [kind |-> "response", status |-> 500, body |-> GarbageBody]}
  \cup {[kind |-> "response", status |-> 200, body |-> b] :
          b \in {FakeBody, RealBody, GarbageBody}}

ConcDelegateOutcomes ==
  {[kind |-> "response", status |-> 500, body |-> GarbageBody]}
  \cup {[kind |-> "response", status |-> 200, body |-> b] : b \in {FakeBody, RealBody}}

(***************************************************************************)
(* State                                                                   *)
(***************************************************************************)
VARIABLES
  pc,           \* where each request's goroutine is
  handler,      \* which handler serves it: "analyze", "get", "history"
  req,          \* the decoded AnalysisRequest
  textContent,  \* AnalyzeNews: the text to predict on
  startTime,    \* Predict: startTime
  pred,         \* AnalyzeNews: the *Prediction in hand (0 is nil)
  err,          \* the error the service returned to the handler
  getID,        \* GetPrediction: the id asked for
  got,          \* GetPrediction: the *Prediction found (0 is nil)
  list,         \* GetHistory: the slice of *Prediction returned
  status,       \* the HTTP status the handler wrote (0: none yet)
  body,         \* the JSON payload the handler wrote
  heap,         \* the Prediction objects, by address
  predictions,  \* PredictionRepository.predictions: id -> address
  mu,           \* PredictionRepository.mu
  uuidCounter,  \* uuid.New()
  saveErr,      \* AnalyzeNews: what SavePrediction returned
  redirects,    \* httpClient.Do: the redirects followed so far (len(via) - 1)
  log,          \* history: each request's outbound calls, their answers, its store writes
  savedAs,      \* history: each stored id's Prediction as it was when Save returned
  clientPc,     \* the client: where the call to NewsAnalysisProvider.analyzeNews is
  article,      \* NewsAnalysisProvider.analyzeNews: the NewsArticle built from the form
  state,        \* NewsAnalysisProvider._state
  errorMessage, \* NewsAnalysisProvider._errorMessage
  currentPrediction, \* NewsAnalysisProvider._currentPrediction
  sent,         \* history: the data handed to NewsRemoteDataSource.analyzeNews
  received      \* history: what came back from the backend

vars ==
  <<pc, handler, req, textContent, startTime, pred, err, getID, got, list, status,
    body, heap, predictions, mu, uuidCounter, saveErr, redirects, log, savedAs,
    clientPc, article, state, errorMessage, currentPrediction, sent, received>>

clientVars == <<clientPc, article, state, errorMessage, currentPrediction, sent, received>>

serverVars ==
  <<pc, handler, req, textContent, startTime, pred, err, getID, got, list, status,
    body, heap, predictions, mu, uuidCounter, saveErr, redirects, log, savedAs>>

\* a NewsArticle, and the values that stand for null
NoArticle == [content |-> EmptyStr, type |-> ""]

Null == [kind |-> "null"]

\* the provider as constructed, no call made
InitClient ==
  /\ clientPc = "idle"
  /\ article = NoArticle
  /\ state = "initial"
  /\ errorMessage = "null"
  /\ currentPrediction = Null
  /\ sent = Null
  /\ received = Null

NoReq == [Type |-> "", Content |-> EmptyStr]

\* the zero value of domain.Prediction
ZeroPrediction ==
  [ID |-> EmptyStr, ArticleID |-> EmptyStr, RequestType |-> "",
   OriginalContent |-> EmptyStr, Result |-> EmptyStr, Confidence |-> 0,
   ModelVersion |-> EmptyStr, ProcessingTime |-> 0, CreatedAt |-> 0]

NoBody == [kind |-> "none"]

Init ==
  /\ pc = [w \in Workers |-> "idle"]
  /\ handler = [w \in Workers |-> "none"]
  /\ req = [w \in Workers |-> NoReq]
  /\ textContent = [w \in Workers |-> EmptyStr]
  /\ startTime = [w \in Workers |-> 0]
  /\ pred = [w \in Workers |-> 0]
  /\ err = [w \in Workers |-> NoErr]
  /\ getID = [w \in Workers |-> EmptyStr]
  /\ got = [w \in Workers |-> 0]
  /\ list = [w \in Workers |-> << >>]
  /\ status = [w \in Workers |-> 0]
  /\ body = [w \in Workers |-> NoBody]
  /\ heap = [w \in Workers |-> ZeroPrediction]
  /\ predictions = << >>
  /\ mu = [writer |-> 0, readers |-> {}]
  /\ uuidCounter = 1
  /\ saveErr = [w \in Workers |-> NoErr]
  /\ redirects = [w \in Workers |-> 0]
  /\ log = [w \in Workers |-> << >>]
  /\ savedAs = << >>
  /\ InitClient

(***************************************************************************)
(* Helpers                                                                 *)
(***************************************************************************)
Set(f, w, v) == [f EXCEPT ![w] = v]

\* history: one more event of request w, with the answer that came back, if any
NoOutcome == [kind |-> "none"]

Logged(f, w, e, out) == [f EXCEPT ![w] = Append(@, [ev |-> e, out |-> out])]

\* m[k] = v on a Go map
MapPut(m, k, v) == [i \in DOMAIN m \cup {k} |-> IF i = k THEN v ELSE m[i]]

\* every arrangement of the elements of S in a sequence
Perms(S) ==
  {q \in [1..Cardinality(S) -> S] : \A i, j \in DOMAIN q : i # j => q[i] # q[j]}

(***************************************************************************)
(* ScraperService.ScrapeURL, from the answer to its GET onwards            *)
(***************************************************************************)
\* a ScrapeURL that returns whatever the extraction yields
ScrapeResultAllowsEmpty(out) ==
  IF out.kind = "error"
    THEN [err |-> WrapDetail(ErrURLScrapingFailed, out.cause), content |-> EmptyStr]
  ELSE IF out.status # 200
    THEN [err |-> Wrap(ErrURLScrapingFailed, out.status), content |-> EmptyStr]
  ELSE IF out.kind = "bodyerror"
    THEN [err |-> WrapDetail(ErrURLScrapingFailed, "failed to read body"),
          content |-> EmptyStr]
  ELSE [err |-> NoErr, content |-> extractTextFromHTML(out.body)]

\* [err, content]
\* ScrapeURL, had it taken every 2xx status for a success
ScrapeResultAny2xx(out) ==
  IF out.kind = "error"
    THEN [err |-> WrapDetail(ErrURLScrapingFailed, out.cause), content |-> EmptyStr]
  ELSE IF out.status \notin 200..299
    THEN [err |-> Wrap(ErrURLScrapingFailed, out.status), content |-> EmptyStr]
  ELSE IF out.kind = "bodyerror"
    THEN [err |-> WrapDetail(ErrURLScrapingFailed, "failed to read body"),
          content |-> EmptyStr]
  ELSE LET content == extractTextFromHTML(out.body)
       IN IF content = EmptyStr
            THEN [err |-> WrapDetail(ErrURLScrapingFailed, "no content extracted"),
                  content |-> EmptyStr]
            ELSE [err |-> NoErr, content |-> content]

ScrapeResult(out) ==
  IF out.kind = "error"
    THEN [err |-> WrapDetail(ErrURLScrapingFailed, out.cause), content |-> EmptyStr]
  ELSE IF out.status # 200
    THEN [err |-> Wrap(ErrURLScrapingFailed, out.status), content |-> EmptyStr]
  ELSE IF out.kind = "bodyerror"
    THEN [err |-> WrapDetail(ErrURLScrapingFailed, "failed to read body"),
          content |-> EmptyStr]
  ELSE LET content == extractTextFromHTML(out.body)
       IN IF content = EmptyStr
            THEN [err |-> WrapDetail(ErrURLScrapingFailed, "no content extracted"),
                  content |-> EmptyStr]
            ELSE [err |-> NoErr, content |-> content]

(***************************************************************************)
(* MLClient.Predict, from the answer to its POST onwards                   *)
(***************************************************************************)
\* Predict without its check of the status code
PredictResultIgnoresStatus(out, elapsed, now) ==
  IF out.kind = "error"
    THEN [err |-> WrapDetail(ErrMLServiceUnavailable, out.cause),
          prediction |-> ZeroPrediction]
  ELSE LET mlResp == Unmarshal(out.body)
       IN [err |-> NoErr,
           prediction |-> [ZeroPrediction EXCEPT
                             !.Result = mlResp.Result,
                             !.Confidence = mlResp.Confidence,
                             !.ModelVersion = mlResp.ModelVersion,
                             !.ProcessingTime = elapsed,
                             !.CreatedAt = now]]

\* a Predict that hands a transport failure on as it got it
PredictResultBareCause(out, elapsed, now) ==
  IF out.kind = "error"
    THEN [err |-> Errorf(out.cause), prediction |-> ZeroPrediction]
  ELSE IF out.status # 200
    THEN [err |-> Wrap(ErrPredictionFailed, out.status), prediction |-> ZeroPrediction]
  ELSE LET mlResp == Unmarshal(out.body)
       IN [err |-> NoErr,
           prediction |-> [ZeroPrediction EXCEPT
                             !.Result = mlResp.Result,
                             !.Confidence = mlResp.Confidence,
                             !.ModelVersion = mlResp.ModelVersion,
                             !.ProcessingTime = elapsed,
                             !.CreatedAt = now]]

\* [err, prediction]; elapsed is time.Since(startTime), now is time.Now()
PredictResult(out, elapsed, now) ==
  IF out.kind = "error"
    THEN [err |-> WrapDetail(ErrMLServiceUnavailable, out.cause),
          prediction |-> ZeroPrediction]
  ELSE IF out.status # 200
    THEN [err |-> Wrap(ErrPredictionFailed, out.status), prediction |-> ZeroPrediction]
  ELSE LET mlResp == Unmarshal(out.body)
       IN [err |-> NoErr,
           prediction |-> [ZeroPrediction EXCEPT
                             !.Result = mlResp.Result,
                             !.Confidence = mlResp.Confidence,
                             !.ModelVersion = mlResp.ModelVersion,
                             !.ProcessingTime = elapsed,
                             !.CreatedAt = now]]

(***************************************************************************)
(* NewsService.AnalyzeNews behind NewsHandler.AnalyzeNews                  *)
(***************************************************************************)
\* an id generator that repeats itself
NewUUIDRepeats == UUIDString(1)

\* uuid.New().String()
NewUUID == UUIDString(uuidCounter)

\* The handler decodes the body into r and calls AnalyzeNews, which runs up to
\* its first outbound call: Validate, the switch on the type and, for a URL,
\* ScrapeURL's validity check.
HandleAnalyze(w, r) ==
  /\ pc[w] = "idle"
  /\ handler' = Set(handler, w, "analyze")
  /\ req' = Set(req, w, r)
  /\ LET e == Validate(r)
     IN IF e # NoErr
          THEN /\ err' = Set(err, w, e)
               /\ pc' = Set(pc, w, "respond")
               /\ UNCHANGED <<textContent, log>>
        ELSE IF r.Type = "text"
          THEN /\ textContent' = Set(textContent, w, r.Content)
               /\ pc' = Set(pc, w, "predict")
               /\ UNCHANGED <<err, log>>
        ELSE IF r.Type = "url"
          THEN IF ~isValidURL(r.Content)
                 THEN /\ err' = Set(err, w, ErrInvalidURL)
                      /\ pc' = Set(pc, w, "respond")
                      /\ UNCHANGED <<textContent, log>>
                 ELSE /\ pc' = Set(pc, w, "fetching")
                      /\ log' = Logged(log, w, "fetch", NoOutcome)
                      /\ UNCHANGED <<textContent, err>>
        ELSE /\ err' = Set(err, w, ErrInvalidRequestType)
             /\ pc' = Set(pc, w, "respond")
             /\ UNCHANGED <<textContent, log>>
  /\ UNCHANGED <<clientVars, redirects, startTime, pred, getID, got, list, status, body, heap, predictions,
                 mu, uuidCounter, saveErr, savedAs>>

\* AnalyzeNews falling back to the URL string as the text when scraping fails
FetchReturnFallsBack(w, out) ==
  /\ pc[w] = "fetching"
  /\ LET res == ScrapeResult(out)
     IN textContent' = Set(textContent, w,
                           IF res.err # NoErr THEN req[w].Content ELSE res.content)
  /\ pc' = Set(pc, w, "predict")
  /\ log' = Logged(log, w, "fetched", out)
  /\ UNCHANGED <<clientVars, redirects, handler, req, startTime, pred, err, getID, got, list, status, body, heap,
                 predictions, mu, uuidCounter, saveErr, savedAs>>

\* s.httpClient.Do returns in ScrapeURL; AnalyzeNews gets the text or the error
FetchReturn(w, out) ==
  /\ pc[w] = "fetching"
  /\ LET res == ScrapeResult(out)
     IN IF res.err # NoErr
          THEN /\ err' = Set(err, w, res.err)
               /\ pc' = Set(pc, w, "respond")
               /\ UNCHANGED textContent
          ELSE /\ textContent' = Set(textContent, w, res.content)
               /\ pc' = Set(pc, w, "predict")
               /\ UNCHANGED err
  /\ log' = Logged(log, w, "fetched", out)
  /\ UNCHANGED <<clientVars, redirects, handler, req, startTime, pred, getID, got, list, status, body, heap,
                 predictions, mu, uuidCounter, saveErr, savedAs>>

\* the POST going out while the page is still being fetched
\* what Do returns when CheckRedirect refuses the next hop
TooManyRedirects == [kind |-> "error", cause |-> "too many redirects"]

\* the page answers with a redirect: CheckRedirect is asked, with via holding
\* the requests made so far, and the next request goes out unless it refuses
FetchRedirectOneMore(w) ==
  /\ pc[w] = "fetching"
  /\ IF redirects[w] + 1 >= 11
       THEN /\ err' = Set(err, w, ScrapeResult(TooManyRedirects).err)
            /\ pc' = Set(pc, w, "respond")
            /\ log' = Logged(log, w, "fetched", TooManyRedirects)
            /\ UNCHANGED redirects
       ELSE /\ redirects' = Set(redirects, w, redirects[w] + 1)
            /\ UNCHANGED <<err, pc, log>>
  /\ UNCHANGED <<clientVars, handler, req, textContent, startTime, pred, getID, got, list, status, body,
                 heap, predictions, mu, uuidCounter, saveErr, savedAs>>

FetchRedirect(w) ==
  /\ pc[w] = "fetching"
  /\ IF redirects[w] + 1 >= 10
       THEN /\ err' = Set(err, w, ScrapeResult(TooManyRedirects).err)
            /\ pc' = Set(pc, w, "respond")
            /\ log' = Logged(log, w, "fetched", TooManyRedirects)
            /\ UNCHANGED redirects
       ELSE /\ redirects' = Set(redirects, w, redirects[w] + 1)
            /\ UNCHANGED <<err, pc, log>>
  /\ UNCHANGED <<clientVars, handler, req, textContent, startTime, pred, getID, got, list, status, body,
                 heap, predictions, mu, uuidCounter, saveErr, savedAs>>

PredictSendSpeculative(w, now) ==
  /\ pc[w] \in {"predict", "fetching"}
  /\ startTime' = Set(startTime, w, now)
  /\ log' = Logged(log, w, "predict", NoOutcome)
  /\ pc' = Set(pc, w, "predicting")
  /\ UNCHANGED <<clientVars, redirects, handler, req, textContent, pred, err, getID, got, list, status, body,
                 heap, predictions, mu, uuidCounter, saveErr, savedAs>>

\* Predict: startTime := time.Now(), then the POST goes out
PredictSend(w, now) ==
  /\ pc[w] = "predict"
  /\ startTime' = Set(startTime, w, now)
  /\ log' = Logged(log, w, "predict", NoOutcome)
  /\ pc' = Set(pc, w, "predicting")
  /\ UNCHANGED <<clientVars, redirects, handler, req, textContent, pred, err, getID, got, list, status, body,
                 heap, predictions, mu, uuidCounter, saveErr, savedAs>>

\* c.httpClient.Do returns in Predict; AnalyzeNews gets the prediction or the error
\* an AnalyzeNews that sends the predict call again when it fails
PredictReturnRetries(w, out, end, now) ==
  /\ pc[w] = "predicting"
  /\ end \in After(startTime[w])
  /\ now \in After(end)
  /\ LET res == PredictResult(out, end - startTime[w], now)
     IN IF res.err # NoErr
          THEN /\ pc' = Set(pc, w, IF Len(log[w]) < 6 THEN "predict" ELSE "respond")
               /\ err' = Set(err, w, IF Len(log[w]) < 6 THEN NoErr ELSE res.err)
               /\ UNCHANGED <<pred, heap>>
          ELSE /\ heap' = Set(heap, w, res.prediction)
               /\ pred' = Set(pred, w, w)
               /\ pc' = Set(pc, w, "enrich")
               /\ UNCHANGED err
  /\ startTime' = Set(startTime, w, 0)
  /\ log' = Logged(log, w, "predicted", out)
  /\ UNCHANGED <<clientVars, redirects, handler, req, textContent, getID, got, list, status, body,
                 predictions, mu, uuidCounter, saveErr, savedAs>>

\* (end is the reading inside time.Since, now the one of CreatedAt)
PredictReturn(w, out, end, now) ==
  /\ pc[w] = "predicting"
  /\ end \in After(startTime[w])
  /\ now \in After(end)
  /\ LET res == PredictResult(out, end - startTime[w], now)
     IN IF res.err # NoErr
          THEN /\ err' = Set(err, w, res.err)
               /\ pc' = Set(pc, w, "respond")
               /\ UNCHANGED <<pred, heap>>
          ELSE /\ heap' = Set(heap, w, res.prediction)
               /\ pred' = Set(pred, w, w)
               /\ pc' = Set(pc, w, "enrich")
               /\ UNCHANGED err
  /\ startTime' = Set(startTime, w, 0)
  /\ log' = Logged(log, w, "predicted", out)
  /\ UNCHANGED <<clientVars, redirects, handler, req, textContent, getID, got, list, status, body,
                 predictions, mu, uuidCounter, saveErr, savedAs>>

\* an enrichment that records the text sent to the delegate as the original
EnrichKeepsText(w, now) ==
  /\ pc[w] = "enrich"
  /\ now \in After(heap[pred[w]].CreatedAt)
  /\ heap' = [heap EXCEPT ![pred[w]] =
                [@ EXCEPT !.ID = NewUUID,
                          !.RequestType = req[w].Type,
                          !.OriginalContent = textContent[w],
                          !.CreatedAt = now]]
  /\ uuidCounter' = uuidCounter + 1
  /\ pc' = Set(pc, w, "save")
  /\ UNCHANGED <<clientVars, redirects, handler, req, textContent, startTime, pred, err, getID, got, list,
                 status, body, predictions, mu, saveErr, log, savedAs>>

\* the four assignments that enrich the prediction with the request's metadata
Enrich(w, now) ==
  /\ pc[w] = "enrich"
  /\ now \in After(heap[pred[w]].CreatedAt)
  /\ heap' = [heap EXCEPT ![pred[w]] =
                [@ EXCEPT !.ID = NewUUID,
                          !.RequestType = req[w].Type,
                          !.OriginalContent = req[w].Content,
                          !.CreatedAt = now]]
  /\ uuidCounter' = uuidCounter + 1
  /\ pc' = Set(pc, w, "save")
  /\ UNCHANGED <<clientVars, redirects, handler, req, textContent, startTime, pred, err, getID, got, list,
                 status, body, predictions, mu, saveErr, log, savedAs>>

(***************************************************************************)
(* repository/memory: PredictionRepository                                 *)
(***************************************************************************)
\* a SavePrediction that only replaces entries that exist (an update)
SaveResultUpdateOnly(m, ptr) ==
  IF heap[ptr].ID \notin DOMAIN m
    THEN [err |-> PlainError, predictions |-> m]
    ELSE [err |-> NoErr, predictions |-> MapPut(m, heap[ptr].ID, ptr)]

\* a SavePrediction without the check of the id
SaveResultUnchecked(m, ptr) ==
  [err |-> NoErr, predictions |-> MapPut(m, heap[ptr].ID, ptr)]

\* a SavePrediction that keeps the entry an id already has (first write wins)
SaveResultKeepsFirst(m, ptr) ==
  IF heap[ptr].ID = EmptyStr
    THEN [err |-> Errorf("prediction ID cannot be empty"), predictions |-> m]
  ELSE IF heap[ptr].ID \in DOMAIN m
    THEN [err |-> NoErr, predictions |-> m]
    ELSE [err |-> NoErr, predictions |-> MapPut(m, heap[ptr].ID, ptr)]

\* the body of SavePrediction, run under mu.Lock: [err, predictions]
\* a store that keeps only the entry written last
SaveResultEvicts(m, ptr) ==
  IF heap[ptr].ID = EmptyStr
    THEN [err |-> Errorf("prediction ID cannot be empty"), predictions |-> m]
    ELSE [err |-> NoErr, predictions |-> MapPut(<< >>, heap[ptr].ID, ptr)]

SaveResult(m, ptr) ==
  IF heap[ptr].ID = EmptyStr
    THEN [err |-> Errorf("prediction ID cannot be empty"), predictions |-> m]
    ELSE [err |-> NoErr, predictions |-> MapPut(m, heap[ptr].ID, ptr)]

\* the body of GetPredictionByID, run under mu.RLock: [err, prediction]
GetResult(m, id) ==
  IF id \notin DOMAIN m
    THEN [err |-> Errorf("prediction not found with id"), prediction |-> 0]
    ELSE [err |-> NoErr, prediction |-> m[id]]

\* r.mu.Lock() in SavePrediction
SaveLock(w) ==
  /\ pc[w] = "save"
  /\ mu.writer = 0
  /\ mu.readers = {}
  /\ mu' = [mu EXCEPT !.writer = w]
  /\ log' = Logged(log, w, "save", NoOutcome)
  /\ pc' = Set(pc, w, "saving")
  /\ UNCHANGED <<clientVars, redirects, handler, req, textContent, startTime, pred, err, getID, got, list,
                 status, body, heap, predictions, uuidCounter, saveErr, savedAs>>

\* a SavePrediction that returns without releasing the lock
SaveUnlockKeepsLock(w) ==
  /\ pc[w] = "saving"
  /\ mu.writer = w
  /\ LET res == SaveResult(predictions, pred[w])
     IN /\ predictions' = res.predictions
        /\ saveErr' = Set(saveErr, w, res.err)
        /\ savedAs' = IF res.err = NoErr
                         THEN MapPut(savedAs, heap[pred[w]].ID, heap[pred[w]])
                         ELSE savedAs
  /\ pc' = Set(pc, w, "saved")
  /\ UNCHANGED <<clientVars, redirects, handler, req, textContent, startTime, pred, err, getID, got, list,
                 status, body, heap, uuidCounter, log, mu>>

\* the rest of SavePrediction: the check, the map write, the deferred Unlock
SaveUnlock(w) ==
  /\ pc[w] = "saving"
  /\ mu.writer = w
  /\ LET res == SaveResult(predictions, pred[w])
     IN /\ predictions' = res.predictions
        /\ saveErr' = Set(saveErr, w, res.err)
        /\ savedAs' = IF res.err = NoErr
                         THEN MapPut(savedAs, heap[pred[w]].ID, heap[pred[w]])
                         ELSE savedAs
  /\ mu' = [mu EXCEPT !.writer = 0]
  /\ pc' = Set(pc, w, "saved")
  /\ UNCHANGED <<clientVars, redirects, handler, req, textContent, startTime, pred, err, getID, got, list,
                 status, body, heap, uuidCounter, log>>

\* AnalyzeNews failing the request when the save fails
AfterSavePropagates(p, e) ==
  IF e # NoErr THEN [pred |-> 0, err |-> e] ELSE [pred |-> p, err |-> NoErr]

\* what AnalyzeNews returns once SavePrediction has returned: [pred, err]
AfterSave(p, e) == [pred |-> p, err |-> NoErr]

\* AnalyzeNews stamping the prediction once more after it has been saved
AnalyzeReturnTouches(w) ==
  /\ pc[w] = "saved"
  /\ LET ret == AfterSave(pred[w], saveErr[w])
     IN /\ pred' = Set(pred, w, ret.pred)
        /\ err' = Set(err, w, ret.err)
  /\ heap' = [heap EXCEPT ![w].CreatedAt = @ + 1]
  /\ pc' = Set(pc, w, "respond")
  /\ UNCHANGED <<clientVars, redirects, handler, req, textContent, startTime, getID, got, list, status, body,
                 predictions, mu, uuidCounter, saveErr, log, savedAs>>

\* AnalyzeNews logs a save error and returns the prediction
AnalyzeReturn(w) ==
  /\ pc[w] = "saved"
  /\ LET ret == AfterSave(pred[w], saveErr[w])
     IN /\ pred' = Set(pred, w, ret.pred)
        /\ err' = Set(err, w, ret.err)
  /\ pc' = Set(pc, w, "respond")
  /\ UNCHANGED <<clientVars, redirects, handler, req, textContent, startTime, getID, got, list, status, body,
                 heap, predictions, mu, uuidCounter, saveErr, log, savedAs>>

(***************************************************************************)
(* NewsHandler                                                             *)
(***************************************************************************)
\* the switch on err in NewsHandler.AnalyzeNews: err is compared with the
\* package-level error values
AnalyzeStatus(e) ==
  IF e \in {ErrInvalidRequestType, ErrEmptyContent, ErrInvalidURL} THEN 400
  ELSE IF e = ErrURLScrapingFailed THEN 502
  ELSE IF e \in {ErrMLServiceUnavailable, ErrPredictionFailed} THEN 503
  ELSE 500

ErrorBody == [kind |-> "error"]

RespondAnalyze(w) ==
  /\ pc[w] = "respond"
  /\ handler[w] = "analyze"
  /\ IF err[w] # NoErr
       THEN /\ status' = Set(status, w, AnalyzeStatus(err[w]))
            /\ body' = Set(body, w, ErrorBody)
       ELSE /\ status' = Set(status, w, 200)
            /\ body' = Set(body, w, [kind |-> "prediction", prediction |-> heap[pred[w]]])
  /\ pc' = Set(pc, w, "done")
  /\ UNCHANGED <<clientVars, redirects, handler, req, textContent, startTime, pred, err, getID, got, list,
                 heap, predictions, mu, uuidCounter, saveErr, log, savedAs>>

\* GET /api/predictions?id=...
HandleGet(w, id) ==
  /\ pc[w] = "idle"
  /\ handler' = Set(handler, w, "get")
  /\ getID' = Set(getID, w, id)
  /\ IF id = EmptyStr
       THEN /\ status' = Set(status, w, 400)
            /\ body' = Set(body, w, ErrorBody)
            /\ pc' = Set(pc, w, "done")
       ELSE /\ pc' = Set(pc, w, "rlock")
            /\ UNCHANGED <<status, body>>
  /\ UNCHANGED <<clientVars, redirects, req, textContent, startTime, pred, err, got, list, heap, predictions,
                 mu, uuidCounter, saveErr, log, savedAs>>

\* GET /api/history
HandleHistory(w) ==
  /\ pc[w] = "idle"
  /\ handler' = Set(handler, w, "history")
  /\ pc' = Set(pc, w, "rlock")
  /\ UNCHANGED <<clientVars, redirects, req, textContent, startTime, pred, err, getID, got, list, status, body,
                 heap, predictions, mu, uuidCounter, saveErr, log, savedAs>>

\* r.mu.RLock() in GetPredictionByID and GetAllPredictions
RLock(w) ==
  /\ pc[w] = "rlock"
  /\ mu.writer = 0
  /\ mu' = [mu EXCEPT !.readers = @ \cup {w}]
  /\ pc' = Set(pc, w, "reading")
  /\ UNCHANGED <<clientVars, redirects, handler, req, textContent, startTime, pred, err, getID, got, list,
                 status, body, heap, predictions, uuidCounter, saveErr, log,
                 savedAs>>

\* the rest of GetPredictionByID: the lookup and the deferred RUnlock
GetRead(w) ==
  /\ pc[w] = "reading"
  /\ handler[w] = "get"
  /\ LET res == GetResult(predictions, getID[w])
     IN /\ got' = Set(got, w, res.prediction)
        /\ err' = Set(err, w, res.err)
  /\ mu' = [mu EXCEPT !.readers = @ \ {w}]
  /\ pc' = Set(pc, w, "respond")
  /\ UNCHANGED <<clientVars, redirects, handler, req, textContent, startTime, pred, getID, list, status, body,
                 heap, predictions, uuidCounter, saveErr, log, savedAs>>

\* a GetAllPredictions that leaves out the first entry its range yields
HistoryReadDropsFirst(w, order) ==
  /\ pc[w] = "reading"
  /\ handler[w] = "history"
  /\ list' = Set(list, w, [i \in 1..(Len(order) - 1) |-> predictions[order[i + 1]]])
  /\ mu' = [mu EXCEPT !.readers = @ \ {w}]
  /\ pc' = Set(pc, w, "respond")
  /\ UNCHANGED <<clientVars, redirects, handler, req, textContent, startTime, pred, err, getID, got, status,
                 body, heap, predictions, uuidCounter, saveErr, log, savedAs>>

\* the rest of GetAllPredictions: the range over the map, whose order Go leaves
\* unspecified, and the deferred RUnlock
HistoryRead(w, order) ==
  /\ pc[w] = "reading"
  /\ handler[w] = "history"
  /\ list' = Set(list, w, [i \in DOMAIN order |-> predictions[order[i]]])
  /\ mu' = [mu EXCEPT !.readers = @ \ {w}]
  /\ pc' = Set(pc, w, "respond")
  /\ UNCHANGED <<clientVars, redirects, handler, req, textContent, startTime, pred, err, getID, got, status,
                 body, heap, predictions, uuidCounter, saveErr, log, savedAs>>

\* a GetPrediction handler that reports a failed lookup as a server error
RespondGetServerError(w) ==
  /\ pc[w] = "respond"
  /\ handler[w] = "get"
  /\ IF err[w] # NoErr
       THEN /\ status' = Set(status, w, 500)
            /\ body' = Set(body, w, ErrorBody)
       ELSE /\ status' = Set(status, w, 200)
            /\ body' = Set(body, w, [kind |-> "prediction", prediction |-> heap[got[w]]])
  /\ pc' = Set(pc, w, "done")
  /\ UNCHANGED <<clientVars, redirects, handler, req, textContent, startTime, pred, err, getID, got, list,
                 heap, predictions, mu, uuidCounter, saveErr, log, savedAs>>

RespondGet(w) ==
  /\ pc[w] = "respond"
  /\ handler[w] = "get"
  /\ IF err[w] # NoErr
       THEN /\ status' = Set(status, w, 404)
            /\ body' = Set(body, w, ErrorBody)
       ELSE /\ status' = Set(status, w, 200)
            /\ body' = Set(body, w, [kind |-> "prediction", prediction |-> heap[got[w]]])
  /\ pc' = Set(pc, w, "done")
  /\ UNCHANGED <<clientVars, redirects, handler, req, textContent, startTime, pred, err, getID, got, list,
                 heap, predictions, mu, uuidCounter, saveErr, log, savedAs>>

RespondHistory(w) ==
  /\ pc[w] = "respond"
  /\ handler[w] = "history"
  /\ status' = Set(status, w, 200)
  /\ body' = Set(body, w, [kind |-> "history", count |-> Len(list[w]),
                           history |-> [i \in DOMAIN list[w] |-> heap[list[w][i]]]])
  /\ pc' = Set(pc, w, "done")
  /\ UNCHANGED <<clientVars, redirects, handler, req, textContent, startTime, pred, err, getID, got, list,
                 heap, predictions, mu, uuidCounter, saveErr, log, savedAs>>

(***************************************************************************)
(* Specification                                                           *)
(***************************************************************************)
Next ==
  \E w \in Workers :
    \/ \E r \in Requests : HandleAnalyze(w, r)
    \/ \E out \in FetchOutcomes : FetchReturn(w, out)
    \/ \E now \in Times : PredictSend(w, now)
    \/ \E out \in DelegateOutcomes, end, now \in Times : PredictReturn(w, out, end, now)
    \/ \E now \in Times : Enrich(w, now)
    \/ SaveLock(w)
    \/ SaveUnlock(w)
    \/ AnalyzeReturn(w)
    \/ RespondAnalyze(w)
    \/ \E id \in GetIDs : HandleGet(w, id)
    \/ HandleHistory(w)
    \/ RLock(w)
    \/ GetRead(w)
    \/ \E order \in Perms(DOMAIN predictions) : HistoryRead(w, order)
    \/ RespondGet(w)
    \/ RespondHistory(w)

Spec == Init /\ [][Next]_vars

\* Concurrent text analyses and store reads only.
NextConc ==
  \E w \in Workers :
    \/ \E r \in ConcRequests : HandleAnalyze(w, r)
    \/ \E now \in Times : PredictSend(w, now)
    \/ \E out \in ConcDelegateOutcomes, end, now \in Times : PredictReturn(w, out, end, now)
    \/ \E now \in Times : Enrich(w, now)
    \/ SaveLock(w)
    \/ SaveUnlock(w)
    \/ AnalyzeReturn(w)
    \/ RespondAnalyze(w)
    \/ \E id \in GetIDs : HandleGet(w, id)
    \/ HandleHistory(w)
    \/ RLock(w)
    \/ GetRead(w)
    \/ \E order \in Perms(DOMAIN predictions) : HistoryRead(w, order)
    \/ RespondGet(w)
    \/ RespondHistory(w)

SpecConc == Init /\ [][NextConc]_vars

\* NewsService takes any NewsRepository: an implementation other than the
\* in-memory one may fail to save.
SaveFails(w) ==
  /\ pc[w] = "save"
  /\ saveErr' = Set(saveErr, w, PlainError)
  /\ log' = Logged(log, w, "save", NoOutcome)
  /\ pc' = Set(pc, w, "saved")
  /\ UNCHANGED <<clientVars, redirects, handler, req, textContent, startTime, pred, err, getID, got, list,
                 status, body, heap, predictions, mu, uuidCounter, savedAs>>

NextAnyRepo == NextConc \/ \E w \in Workers : SaveFails(w)

SpecAnyRepo == Init /\ [][NextAnyRepo]_vars

\* One URL analysis, over every URL string up to MaxURLLen tokens.
URLAlphabet == {"http", "ftp", ":", "/", "h", " "}

SeqsUpTo(S, n) == UNION {[1..k -> S] : k \in 0..n}

URLStrings ==
  SeqsUpTo(URLAlphabet, MaxURLLen) \cup {NotAURL, <<"HTTPS", ":", "/", "/", "h">>}

NextURL ==
  \/ /\ pc[1] = "idle"
     /\ \E u \in URLStrings : HandleAnalyze(1, [Type |-> "url", Content |-> u])
  \/ \E out \in FetchOutcomes : FetchReturn(1, out)
  \/ RespondAnalyze(1)

SpecURL == Init /\ [][NextURL]_vars

(***************************************************************************)
(* GET /api/health: NewsHandler.HealthCheck, NewsService.CheckMLHealth,    *)
(* MLClient.HealthCheck                                                    *)
(***************************************************************************)
\* what the GET to the delegate's /health can come back with
HealthOutcomes ==
  {[kind |-> "error", status |-> 0, cause |-> "connection refused"],
   [kind |-> "response", status |-> 500],
   [kind |-> "response", status |-> 200]}

\* a HealthCheck that takes any response as a sign of life
HealthResultAnyResponse(out) ==
  IF out.kind = "error" THEN WrapDetail(ErrMLServiceUnavailable, out.cause) ELSE NoErr

\* MLClient.HealthCheck, from the answer to its GET onwards
HealthResult(out) ==
  IF out.kind = "error" THEN WrapDetail(ErrMLServiceUnavailable, out.cause)
  ELSE IF out.status # 200 THEN ErrMLServiceUnavailable
  ELSE NoErr

\* the handler calls CheckMLHealth, which sends the GET
HandleHealth(w) ==
  /\ pc[w] = "idle"
  /\ handler' = Set(handler, w, "health")
  /\ log' = Logged(log, w, "probe", NoOutcome)
  /\ pc' = Set(pc, w, "probing")
  /\ UNCHANGED <<clientVars, redirects, req, textContent, startTime, pred, err, getID, got, list, status, body,
                 heap, predictions, mu, uuidCounter, saveErr, savedAs>>

\* the GET returns and HealthCheck returns its error to the handler
HealthReturn(w, out) ==
  /\ pc[w] = "probing"
  /\ err' = Set(err, w, HealthResult(out))
  /\ log' = Logged(log, w, "probed", out)
  /\ pc' = Set(pc, w, "respond")
  /\ UNCHANGED <<clientVars, redirects, handler, req, textContent, startTime, pred, getID, got, list, status,
                 body, heap, predictions, mu, uuidCounter, saveErr, savedAs>>

RespondHealth(w) ==
  /\ pc[w] = "respond"
  /\ handler[w] = "health"
  /\ status' = Set(status, w, 200)
  /\ body' = Set(body, w,
                 [kind |-> "health",
                  status |-> IF err[w] # NoErr THEN "degraded" ELSE "healthy",
                  ml_service |-> IF err[w] # NoErr THEN "down" ELSE "up"])
  /\ pc' = Set(pc, w, "done")
  /\ UNCHANGED <<clientVars, redirects, handler, req, textContent, startTime, pred, err, getID, got, list,
                 heap, predictions, mu, uuidCounter, saveErr, log, savedAs>>

\* Health checks next to concurrent analyses and store reads.
NextHealth ==
  \/ NextConc
  \/ \E w \in Workers :
       \/ HandleHealth(w)
       \/ \E out \in HealthOutcomes : HealthReturn(w, out)
       \/ RespondHealth(w)

SpecHealth == Init /\ [][NextHealth]_vars

(***************************************************************************)
(* Cancellation of the caller's request                                    *)
(***************************************************************************)
\* The caller gives up (the client closes the connection, so the context of
\* the http.Request is cancelled) while AnalyzeNews waits for a page or for
\* the delegate.  The handler passes no context to AnalyzeNews and the
\* outbound requests are built without one, so nothing in the pipeline reads
\* the signal: only the history records it.
Cancel(w) ==
  /\ handler[w] = "analyze"
  /\ pc[w] \in {"fetching", "predicting"}
  /\ \A i \in 1..Len(log[w]) : log[w][i].ev # "cancel"
  /\ log' = Logged(log, w, "cancel", NoOutcome)
  /\ UNCHANGED <<clientVars, redirects, pc, handler, req, textContent, startTime, pred, err, getID, got, list,
                 status, body, heap, predictions, mu, uuidCounter, saveErr, savedAs>>

NextCancel == NextConc \/ \E w \in Workers : Cancel(w)

SpecCancel == Init /\ [][NextCancel]_vars

(***************************************************************************)
(* The outbound calls and what can come back                               *)
(***************************************************************************)
\* the ways the transport can fail: refused connection, client timeout, DNS
Causes == {"connection refused", "timeout", "no such host"}

\* the status codes a server answers with
Statuses == {200, 201, 204, 206, 500}

OutboundRequests ==
  {[Type |-> "text", Content |-> Str("X")], [Type |-> "url", Content |-> URLOk]}

OutboundFetchOutcomes ==
  {[kind |-> "error", status |-> 0, body |-> EmptyStr, cause |-> c] : c \in Causes}
  \cup {[kind |-> "response", status |-> st, body |-> ArticlePage] : st \in Statuses}

OutboundDelegateOutcomes ==
  {[kind |-> "error", status |-> 0, body |-> GarbageBody, cause |-> c] : c \in Causes}
  \cup {[kind |-> "response", status |-> st, body |-> FakeBody] : st \in Statuses}

OutboundHealthOutcomes ==
  {[kind |-> "error", status |-> 0, cause |-> c] : c \in Causes}
  \cup {[kind |-> "response", status |-> st] : st \in Statuses}

\* Analyses and health checks against servers that answer with any of the
\* statuses or not at all.
NextOutbound ==
  \E w \in Workers :
    \/ \E r \in OutboundRequests : HandleAnalyze(w, r)
    \/ \E out \in OutboundFetchOutcomes : FetchReturn(w, out)
    \/ \E now \in Times : PredictSend(w, now)
    \/ \E out \in OutboundDelegateOutcomes, end, now \in Times :
         PredictReturn(w, out, end, now)
    \/ \E now \in Times : Enrich(w, now)
    \/ SaveLock(w)
    \/ SaveUnlock(w)
    \/ AnalyzeReturn(w)
    \/ RespondAnalyze(w)
    \/ HandleHealth(w)
    \/ \E out \in OutboundHealthOutcomes : HealthReturn(w, out)
    \/ RespondHealth(w)

SpecOutbound == Init /\ [][NextOutbound]_vars

(***************************************************************************)
(* The repository called directly                                          *)
(***************************************************************************)
\* Callers of the repository other than AnalyzeNews: each hands
\* SavePrediction a Prediction of its own making, next to readers, on a store
\* that already holds one entry from an earlier request.
Resident == NumReqs + 1

ResidentID == UUIDString(0)

ResidentPrediction ==
  [ZeroPrediction EXCEPT !.ID = ResidentID, !.RequestType = "text",
                         !.OriginalContent = Str("X"), !.Result = Str("REAL"),
                         !.Confidence = 8, !.CreatedAt = 1]

StoreIDs == GetIDs \cup {ResidentID}

StorePredictions ==
  {[ZeroPrediction EXCEPT !.ID = id, !.Result = r] :
     id \in StoreIDs, r \in {Str("FAKE"), Str("REAL")}}

InitStore ==
  /\ pc = [w \in Workers |-> "idle"]
  /\ handler = [w \in Workers |-> "none"]
  /\ req = [w \in Workers |-> NoReq]
  /\ textContent = [w \in Workers |-> EmptyStr]
  /\ startTime = [w \in Workers |-> 0]
  /\ pred = [w \in Workers |-> 0]
  /\ err = [w \in Workers |-> NoErr]
  /\ getID = [w \in Workers |-> EmptyStr]
  /\ got = [w \in Workers |-> 0]
  /\ list = [w \in Workers |-> << >>]
  /\ status = [w \in Workers |-> 0]
  /\ body = [w \in Workers |-> NoBody]
  /\ heap = [a \in Workers \cup {Resident} |->
              IF a = Resident THEN ResidentPrediction ELSE ZeroPrediction]
  /\ predictions = MapPut(<< >>, ResidentID, Resident)
  /\ mu = [writer |-> 0, readers |-> {}]
  /\ uuidCounter = 1
  /\ saveErr = [w \in Workers |-> NoErr]
  /\ redirects = [w \in Workers |-> 0]
  /\ log = [w \in Workers |-> << >>]
  /\ savedAs = MapPut(<< >>, ResidentID, ResidentPrediction)
  /\ InitClient

\* a caller builds Prediction p and calls SavePrediction(&p)
CallSave(w, p) ==
  /\ pc[w] = "idle"
  /\ handler' = Set(handler, w, "save")
  /\ heap' = Set(heap, w, p)
  /\ pred' = Set(pred, w, w)
  /\ pc' = Set(pc, w, "save")
  /\ UNCHANGED <<clientVars, redirects, req, textContent, startTime, err, getID, got, list, status, body,
                 predictions, mu, uuidCounter, saveErr, log, savedAs>>

\* SavePrediction returns its error to that caller
SaveReturn(w) ==
  /\ pc[w] = "saved"
  /\ handler[w] = "save"
  /\ err' = Set(err, w, saveErr[w])
  /\ pc' = Set(pc, w, "done")
  /\ UNCHANGED <<clientVars, redirects, handler, req, textContent, startTime, pred, getID, got, list, status,
                 body, heap, predictions, mu, uuidCounter, saveErr, log, savedAs>>

NextStore ==
  \E w \in Workers :
    \/ \E p \in StorePredictions : CallSave(w, p)
    \/ SaveLock(w)
    \/ SaveUnlock(w)
    \/ SaveReturn(w)
    \/ \E id \in StoreIDs : HandleGet(w, id)
    \/ HandleHistory(w)
    \/ RLock(w)
    \/ GetRead(w)
    \/ \E order \in Perms(DOMAIN predictions) : HistoryRead(w, order)
    \/ RespondGet(w)
    \/ RespondHistory(w)

SpecStore == InitStore /\ [][NextStore]_vars

(***************************************************************************)
(* Progress                                                                *)
(***************************************************************************)
\* What the goroutine of request w does once the request has arrived.  Every
\* outbound call returns, by its answer or by the timeout of its http.Client
\* (15 s for the scraper, 30 s for the delegate), and the Go scheduler runs
\* every goroutine that can run.
Step(w) ==
  \/ \E out \in FetchOutcomes : FetchReturn(w, out)
  \/ \E now \in Times : PredictSend(w, now)
  \/ \E out \in DelegateOutcomes, end, now \in Times : PredictReturn(w, out, end, now)
  \/ \E now \in Times : Enrich(w, now)
  \/ SaveLock(w)
  \/ SaveUnlock(w)
  \/ AnalyzeReturn(w)
  \/ RespondAnalyze(w)
  \/ RLock(w)
  \/ GetRead(w)
  \/ \E order \in Perms(DOMAIN predictions) : HistoryRead(w, order)
  \/ RespondGet(w)
  \/ RespondHistory(w)

SpecLive == Init /\ [][Next]_vars /\ \A w \in Workers : WF_vars(Step(w))

(***************************************************************************)
(* Properties                                                              *)
(***************************************************************************)
Analyzing(w) == handler[w] = "analyze"

\* AnalyzeNews has returned to the handler
Returned(w) == Analyzing(w) /\ pc[w] \in {"respond", "done"}

\* the names of the events of request w, in order
Events(w) == [i \in 1..Len(log[w]) |-> log[w][i].ev]

Happened(w, e) == \E i \in 1..Len(log[w]) : log[w][i].ev = e

\* the answer that came with event e of request w
OutcomeOf(w, e) == log[w][CHOOSE i \in 1..Len(log[w]) : log[w][i].ev = e].out

IsPrefix(a, b) == Len(a) <= Len(b) /\ a = SubSeq(b, 1, Len(a))

\* the addresses the store holds
Stored == {predictions[id] : id \in DOMAIN predictions}

InvalidRequest(r) == r.Type \notin {"text", "url"} \/ r.Content = EmptyStr

\* C1: a request whose type is neither "text" nor "url", or whose content is
\* empty, is answered by AnalyzeNews with an invalid-request error, without any
\* outbound call (no fetch, no delegate call) and without a store write.
C1_InvalidRequestRejected ==
  \A w \in Workers :
    (Analyzing(w) /\ InvalidRequest(req[w])) =>
      /\ Returned(w)
      /\ err[w] \in {ErrInvalidRequestType, ErrEmptyContent}
      /\ log[w] = << >>
      /\ pred[w] = 0
      /\ w \notin Stored

C1_Witness ==
  \E w, v \in Workers :
    /\ Analyzing(w) /\ pc[w] = "done" /\ req[w].Type = "video"
    /\ Analyzing(v) /\ pc[v] = "done" /\ req[v].Type = "url"
    /\ req[v].Content = EmptyStr

FullRunURL == <<"fetch", "fetched", "predict", "predicted", "save">>
FullRunText == <<"predict", "predicted", "save">>

\* C2: within one AnalyzeNews the steps come in a fixed order: the fetch of the
\* URL branch has come back, with a text, before the delegate call starts; the
\* delegate call has come back, with status 200, before the store write starts.
C2_FixedOrder ==
  \A w \in Workers :
    Analyzing(w) =>
      /\ IsPrefix(Events(w), IF req[w].Type = "url" THEN FullRunURL ELSE FullRunText)
      /\ (Happened(w, "predict") /\ req[w].Type = "url") =>
           ScrapeResult(OutcomeOf(w, "fetched")).err = NoErr
      /\ Happened(w, "save") =>
           /\ OutcomeOf(w, "predicted").kind = "response"
           /\ OutcomeOf(w, "predicted").status = 200

C2_Witness ==
  \E w \in Workers :
    Analyzing(w) /\ pc[w] = "done" /\ req[w].Type = "url" /\ Events(w) = FullRunURL

\* AnalyzeNews has returned a prediction and a nil error
Succeeded(w) == Returned(w) /\ err[w] = NoErr

\* C3: analyses running in parallel each get an id of their own, and once a
\* call has returned its prediction is in the store under that id, with the
\* result and confidence of its own delegate answer.
C3_ParallelAnalysesKeptApart ==
  \A w \in Workers :
    Succeeded(w) =>
      LET P == heap[pred[w]]
          res == GetResult(predictions, P.ID)
          mlResp == Unmarshal(OutcomeOf(w, "predicted").body)
      IN /\ P.ID # EmptyStr
         /\ \A v \in Workers \ {w} : Succeeded(v) => heap[pred[v]].ID # P.ID
         /\ res.err = NoErr
         /\ res.prediction = pred[w]
         /\ heap[res.prediction].Result = mlResp.Result
         /\ heap[res.prediction].Confidence = mlResp.Confidence

C3_Witness ==
  /\ \A w \in Workers : Succeeded(w) /\ pc[w] = "done"
  /\ \E w, v \in Workers :
       OutcomeOf(w, "predicted").body # OutcomeOf(v, "predicted").body

\* C4: when the delegate answers the predict call with a status other than
\* 200, AnalyzeNews fails with an error that is ErrPredictionFailed and carries
\* that status, and the request writes nothing to the store.
C4_NonOKStatusFails ==
  \A w \in Workers :
    (/\ Analyzing(w)
     /\ Happened(w, "predicted")
     /\ OutcomeOf(w, "predicted").kind = "response"
     /\ OutcomeOf(w, "predicted").status # 200) =>
      /\ Returned(w)
      /\ ErrorsIs(err[w], ErrPredictionFailed)
      /\ err[w].status = OutcomeOf(w, "predicted").status
      /\ pred[w] = 0
      /\ ~Happened(w, "save")
      /\ w \notin Stored

C4_Witness ==
  \E w \in Workers :
    /\ Analyzing(w) /\ pc[w] = "done"
    /\ Happened(w, "predicted") /\ OutcomeOf(w, "predicted").status = 500
    /\ Stored # {}

\* C5: once AnalyzeNews has returned Prediction P, GetPredictionByID(P.ID)
\* succeeds and gives a Prediction equal to P in every field; so does every
\* answer of GET /api/predictions for that id.
C5_RoundTrip ==
  \A w \in Workers :
    Succeeded(w) =>
      LET P == heap[pred[w]]
          res == GetResult(predictions, P.ID)
      IN /\ res.err = NoErr
         /\ heap[res.prediction] = P
         /\ pc[w] = "done" => body[w].prediction = heap[res.prediction]
         /\ \A g \in Workers :
              (handler[g] = "get" /\ pc[g] = "done" /\ status[g] = 200
               /\ getID[g] = P.ID) => body[g].prediction = P

C5_Witness ==
  \E w, g \in Workers :
    /\ Succeeded(w) /\ pc[w] = "done"
    /\ handler[g] = "get" /\ pc[g] = "done" /\ status[g] = 200
    /\ getID[g] = body[w].prediction.ID

\* C6: when SavePrediction fails, whatever the repository, AnalyzeNews still
\* returns a nil error and the very prediction it held before the save, the
\* one it returns when the save succeeds.
C6_SaveFailureSwallowed ==
  [][\A w \in Workers :
       (saveErr'[w] # NoErr /\ pc[w] \in {"save", "saved"} /\ pc'[w] # pc[w]) =>
         /\ heap'[w] = heap[w]
         /\ pred'[w] = w
         /\ err'[w] = NoErr]_vars

C6_Witness ==
  \E w \in Workers :
    /\ Analyzing(w) /\ pc[w] = "done"
    /\ saveErr[w] # NoErr
    /\ status[w] = 200
    /\ body[w].prediction = heap[w]

\* the status class the API documents for an error of AnalyzeNews
DocumentedStatus(e) ==
  IF \/ ErrorsIs(e, ErrInvalidRequestType)
     \/ ErrorsIs(e, ErrEmptyContent)
     \/ ErrorsIs(e, ErrInvalidURL) THEN 400
  ELSE IF ErrorsIs(e, ErrURLScrapingFailed) THEN 502
  ELSE IF ErrorsIs(e, ErrMLServiceUnavailable) \/ ErrorsIs(e, ErrPredictionFailed) THEN 503
  ELSE 500

\* C7: POST /api/analyze answers a validation error with 400, a scraping
\* failure with 502, and an unavailable delegate or a failed prediction
\* with 503.
C7_StatusClasses ==
  \A w \in Workers :
    (Analyzing(w) /\ pc[w] = "done" /\ err[w] # NoErr) =>
      status[w] = DocumentedStatus(err[w])

\* the error ScrapeURL has returned for request w (NoErr: none so far)
ScrapeErrOf(w) ==
  IF ~isValidURL(req[w].Content) THEN ErrInvalidURL
  ELSE IF Happened(w, "fetched") THEN ScrapeResult(OutcomeOf(w, "fetched")).err
  ELSE NoErr

\* C8: for a request of type "url", an error of ScrapeURL is what AnalyzeNews
\* returns; the delegate is not called, the URL string is not used as the
\* text, and nothing is written to the store.
C8_ScrapeErrorSurfaced ==
  \A w \in Workers :
    (/\ Analyzing(w)
     /\ req[w].Type = "url"
     /\ req[w].Content # EmptyStr
     /\ ScrapeErrOf(w) # NoErr) =>
      /\ Returned(w)
      /\ err[w] = ScrapeErrOf(w)
      /\ textContent[w] = EmptyStr
      /\ ~Happened(w, "predict")
      /\ ~Happened(w, "save")
      /\ w \notin Stored

C8_Witness ==
  \E w \in Workers :
    /\ Analyzing(w) /\ pc[w] = "done" /\ req[w].Type = "url"
    /\ Happened(w, "fetched")
    /\ err[w] = Wrap(ErrURLScrapingFailed, 404)

\* C9: a URL string that does not parse, or whose scheme is neither http nor
\* https, or whose host is empty, is rejected with ErrInvalidURL before any
\* HTTP request goes out.  (An empty string never reaches ScrapeURL: Validate
\* rejects it first.)
C9_InvalidURLRejected ==
  \A w \in Workers :
    (/\ Analyzing(w)
     /\ req[w].Type = "url"
     /\ req[w].Content # EmptyStr
     /\ LET u == urlParse(req[w].Content)
        IN \/ u.err
           \/ u.Scheme \notin {Str("http"), Str("https")}
           \/ u.Host = EmptyStr) =>
      /\ Returned(w)
      /\ err[w] = ErrInvalidURL
      /\ log[w] = << >>

C9_Witness ==
  \E w \in Workers :
    /\ Analyzing(w) /\ pc[w] = "done"
    /\ req[w] = [Type |-> "url", Content |-> NotAURL]
    /\ err[w] = ErrInvalidURL

\* the Predictions as they were when their Save returned
SavedValues == {savedAs[id] : id \in DOMAIN savedAs}

\* C10: whatever the interleaving of saves and reads, a Prediction that is in
\* the store, or that GetPredictionByID or GetAllPredictions has handed out, or
\* that a read handler has written, has the field values it had when its Save
\* returned.
C10_ReadersSeeSavedValues ==
  /\ \A id \in DOMAIN predictions : heap[predictions[id]] = savedAs[id]
  /\ \A g \in Workers :
       /\ (handler[g] = "get" /\ got[g] # 0) =>
            /\ heap[got[g]] = savedAs[getID[g]]
            /\ pc[g] = "done" => body[g].prediction = savedAs[getID[g]]
       /\ handler[g] = "history" =>
            /\ \A i \in DOMAIN list[g] : heap[list[g][i]] \in SavedValues
            /\ pc[g] = "done" =>
                 \A i \in DOMAIN body[g].history : body[g].history[i] \in SavedValues

C10_Witness ==
  \E g, h \in Workers :
    /\ handler[g] = "history" /\ pc[g] = "done" /\ body[g].count = 1
    /\ handler[h] = "analyze" /\ pc[h] \in {"saved", "respond", "done"}

\* C11: when the delegate answers 200 with a body that does not parse, Predict
\* fails with an error that is ErrPredictionFailed, hands no Prediction to
\* AnalyzeNews, and nothing is stored for the request.
C11_UnparsableBodyFails ==
  \A w \in Workers :
    (/\ Analyzing(w)
     /\ Happened(w, "predicted")
     /\ OutcomeOf(w, "predicted").kind = "response"
     /\ OutcomeOf(w, "predicted").status = 200
     /\ ~OutcomeOf(w, "predicted").body.valid) =>
      /\ ErrorsIs(err[w], ErrPredictionFailed)
      /\ pred[w] = 0
      /\ w \notin Stored

\* C12: a health check answers "degraded" and "down" exactly when the GET to
\* the delegate's /health made for that very request came back with a
\* transport error or a status other than 200, and "healthy" and "up"
\* otherwise, whatever other requests, earlier or concurrent, have seen.
C12_HealthReflectsOwnProbe ==
  \A w \in Workers :
    (handler[w] = "health" /\ pc[w] = "done") =>
      LET out == OutcomeOf(w, "probed")
          down == out.kind = "error" \/ out.status # 200
      IN /\ Events(w) = <<"probe", "probed">>
         /\ status[w] = 200
         /\ body[w].status = (IF down THEN "degraded" ELSE "healthy")
         /\ body[w].ml_service = (IF down THEN "down" ELSE "up")

C12_Witness ==
  \E w, v \in Workers :
    /\ handler[w] = "health" /\ pc[w] = "done" /\ body[w].status = "degraded"
    /\ OutcomeOf(w, "probed").status = 500
    /\ handler[v] = "health" /\ pc[v] = "done" /\ body[v].status = "healthy"
    /\ OutcomeOf(v, "probed").status = 200

\* C13: when the delegate answers 200 with result r and confidence c, the
\* Prediction AnalyzeNews returns for a valid request has result r and
\* confidence c, a non-empty id, the request's type, the request's content
\* as original content (for a URL request the URL, not the page text), and a
\* processing time that is not negative.
C13_SuccessFields ==
  \A w \in Workers :
    (Succeeded(w) /\ OutcomeOf(w, "predicted").body.valid) =>
      LET P == heap[pred[w]]
          answer == OutcomeOf(w, "predicted").body.fields
      IN /\ P.Result = answer.result
         /\ P.Confidence = answer.confidence
         /\ P.ID # EmptyStr
         /\ P.RequestType = req[w].Type
         /\ P.OriginalContent = req[w].Content
         /\ P.ProcessingTime >= 0
         /\ pc[w] = "done" => (status[w] = 200 /\ body[w].prediction = P)

C13_Witness ==
  \E w \in Workers :
    /\ Succeeded(w) /\ pc[w] = "done"
    /\ req[w] = [Type |-> "url", Content |-> URLOk]
    /\ textContent[w] # URLOk
    /\ body[w].prediction.Result = Str("FAKE")
    /\ body[w].prediction.Confidence = 92
    /\ body[w].prediction.OriginalContent = URLOk

\* the kinds of the error taxonomy, each with the package-level error values
\* of internal/domain that stand for it
Taxonomy ==
  [InvalidRequest |-> {ErrInvalidRequestType, ErrEmptyContent},
   InvalidURL |-> {ErrInvalidURL},
   InvalidPrediction |-> {},
   ScrapeFailed |-> {ErrURLScrapingFailed},
   ServiceUnavailable |-> {ErrMLServiceUnavailable},
   PredictionFailed |-> {ErrPredictionFailed},
   NotFound |-> {}]

\* the kinds a caller recovers from an error value with errors.Is
KindsOf(e) == {k \in DOMAIN Taxonomy : \E t \in Taxonomy[k] : ErrorsIs(e, t)}

\* C14: every error that AnalyzeNews, SavePrediction or GetPredictionByID
\* returns carries exactly one kind of the taxonomy, recoverable from the
\* error value, wrapped or not.
C14_ErrorsCarryOneKind ==
  \A w \in Workers :
    /\ err[w] # NoErr => Cardinality(KindsOf(err[w])) = 1
    /\ saveErr[w] # NoErr => Cardinality(KindsOf(saveErr[w])) = 1

\* C15: an analysis whose caller cancelled while one of its network calls was
\* in flight fails with a cancellation error and leaves no entry in the store.
C15_CancellationHonoured ==
  \A w \in Workers :
    (Analyzing(w) /\ Happened(w, "cancel") /\ Returned(w)) =>
      /\ err[w] # NoErr
      /\ pred[w] = 0
      /\ w \notin Stored

\* C16: every AnalyzeNews invocation eventually returns, a Prediction or an
\* error, given that every outbound call comes back and every holder of the
\* store's lock goes on to release it.
C16_AnalyzeReturns == \A w \in Workers : Analyzing(w) ~> Returned(w)

\* an analysis waits for the store's lock while another request holds it
C16_Witness ==
  \E w \in Workers :
    /\ Analyzing(w) /\ pc[w] = "save"
    /\ (mu.writer # 0 \/ mu.readers # {})

\* how many times request w has made the call e
Count(w, e) == Cardinality({i \in 1..Len(log[w]) : log[w][i].ev = e})

\* C17: one AnalyzeNews invocation sends at most one page fetch and at most
\* one predict call, and gets at most one answer to each, whether the call
\* succeeds or fails.
C17_AtMostOnce ==
  \A w \in Workers :
    Analyzing(w) =>
      /\ Count(w, "fetch") <= 1
      /\ Count(w, "predict") <= 1
      /\ Count(w, "fetched") <= Count(w, "fetch")
      /\ Count(w, "predicted") <= Count(w, "predict")

C17_Witness ==
  \E w, v \in Workers :
    /\ Analyzing(w) /\ pc[w] = "done"
    /\ Happened(w, "predicted") /\ OutcomeOf(w, "predicted").kind = "error"
    /\ Count(w, "predict") = 1
    /\ Analyzing(v) /\ pc[v] = "done"
    /\ Happened(v, "fetched") /\ OutcomeOf(v, "fetched").kind = "error"
    /\ Count(v, "fetch") = 1 /\ Count(v, "predict") = 0

\* request w is inside SavePrediction and this step completes the call
SaveCompletes(w) == pc[w] = "saving" /\ pc'[w] = "saved"

C19_OverwriteLastWins ==
  [][\A w \in Workers :
       (SaveCompletes(w) /\ heap[pred[w]].ID \in DOMAIN predictions) =>
         LET id == heap[pred[w]].ID
         IN /\ saveErr'[w] = NoErr
            /\ GetResult(predictions', id) = [err |-> NoErr, prediction |-> pred[w]]
            /\ heap'[pred[w]] = heap[pred[w]]
            /\ DOMAIN predictions' = DOMAIN predictions
            /\ \A other \in DOMAIN predictions \ {id} :
                 /\ predictions'[other] = predictions[other]
                 /\ heap'[predictions'[other]] = heap[predictions[other]]]_vars

C19_Witness ==
  \E w, v \in Workers :
    /\ w # v
    /\ handler[w] = "save" /\ pc[w] = "done" /\ err[w] = NoErr
    /\ handler[v] = "save" /\ pc[v] = "done" /\ err[v] = NoErr
    /\ heap[w].ID = heap[v].ID
    /\ heap[w].Result # heap[v].Result
    /\ predictions[heap[w].ID] = w
    /\ savedAs[heap[w].ID] = heap[w]
    /\ Cardinality(DOMAIN predictions) = 2
    /\ heap[predictions[ResidentID]] = ResidentPrediction

Listed(w) == {list[w][i] : i \in DOMAIN list[w]}

\* C21: GetAllPredictions returns exactly the Predictions the store holds at
\* that moment, each once, so two calls with no save between them return the
\* same set; and a list that has been returned stays as it is whatever is
\* saved afterwards.
C21_ListIsSnapshot ==
  [][\A w \in Workers :
       handler[w] = "history" =>
         /\ (pc[w] = "reading" /\ pc'[w] = "respond") =>
              /\ Listed(w)' = Stored
              /\ Len(list'[w]) = Cardinality(DOMAIN predictions)
         /\ pc[w] \in {"respond", "done"} => list'[w] = list[w]]_vars

C21_Witness ==
  \E h, w \in Workers :
    /\ handler[h] = "history" /\ pc[h] = "done"
    /\ Listed(h) = {Resident}
    /\ handler[w] = "save" /\ pc[w] = "done" /\ err[w] = NoErr
    /\ Stored = {Resident, w}

NothingExtracted(w) ==
  /\ Happened(w, "fetched")
  /\ OutcomeOf(w, "fetched").kind = "response"
  /\ OutcomeOf(w, "fetched").status = 200
  /\ extractTextFromHTML(OutcomeOf(w, "fetched").body) = EmptyStr

\* C23: a page from which no text is extracted makes ScrapeURL fail with
\* ErrURLScrapingFailed "no content extracted"; and, for requests of either
\* type, whenever the predict call is made the text sent is not empty.
C23_NoEmptyText ==
  \A w \in Workers :
    Analyzing(w) =>
      /\ NothingExtracted(w) =>
           /\ Returned(w)
           /\ err[w] = WrapDetail(ErrURLScrapingFailed, "no content extracted")
      /\ Happened(w, "predict") => textContent[w] # EmptyStr

C23_Witness ==
  \E w, v \in Workers :
    /\ Analyzing(w) /\ pc[w] = "done" /\ NothingExtracted(w)
    /\ Analyzing(v) /\ req[v].Type = "url" /\ Happened(v, "predict")
    /\ textContent[v] = <<"Hello", " ", "world">>


(***************************************************************************)
(* Documents: what a site serves, as a tree and as the bytes of its HTML   *)
(***************************************************************************)
\* A node of a parsed document: an element with its attributes and children,
\* or a text node ("#text") with its characters.
TextNode(toks) ==
  [tag |-> "#text", class |-> "", id |-> "", role |-> "", text |-> toks, kids |-> << >>]

Elem(tag, kids) ==
  [tag |-> tag, class |-> "", id |-> "", role |-> "", text |-> EmptyStr, kids |-> kids]

ElemClass(tag, class, kids) == [Elem(tag, kids) EXCEPT !.class = class]

ElemId(tag, id, kids) == [Elem(tag, kids) EXCEPT !.id = id]

ElemRole(tag, role, kids) == [Elem(tag, kids) EXCEPT !.role = role]

\* a paragraph longer than fifty characters, as one token
LongText == <<"Lorem-ipsum-dolor-sit-amet-consectetur-adipiscing-elit">>

\* len() of a string: the bytes each token stands for
TokLen(tok) ==
  CASE tok \in {" ", ":", "/", "h", "X", "x"} -> 1
    [] tok \in {"http", "Home", "Body", "Item", "Post"} -> 4
    [] tok = LongText[1] -> 54
    [] OTHER -> 5

RECURSIVE ByteLen(_)
ByteLen(s) == IF s = EmptyStr THEN 0 ELSE TokLen(Head(s)) + ByteLen(Tail(s))

\* the pieces a page is put together from
NavBlock == Elem("nav", <<Elem("li", <<TextNode(<<"Home">>)>>)>>)

ArticleBlock == Elem("article", <<Elem("p", <<TextNode(<<"Hello", " ", "world">>)>>)>>)

\* an article element with no paragraph, heading or list item in it
TeaserBlock == Elem("article", <<Elem("div", <<TextNode(<<"Teaser">>)>>)>>)

\* an article whose only paragraph is blank
BlankBlock == Elem("article", <<Elem("p", <<TextNode(<<" ">>)>>)>>)

MainBlock ==
  Elem("main", <<Elem("h1", <<TextNode(<<"Title">>)>>),
                 Elem("p", <<TextNode(<<" ", "Body", " ">>)>>)>>)

ContentBlock == ElemClass("div", "content", <<Elem("li", <<TextNode(<<"Item">>)>>)>>)

RoleBlock == ElemRole("div", "main", <<Elem("h2", <<TextNode(<<"Story">>)>>)>>)

IdBlock == ElemId("div", "content", <<Elem("p", <<TextNode(<<"Post">>)>>)>>)

ShortParagraph == Elem("p", <<TextNode(<<"Short">>)>>)

LongParagraph == Elem("p", <<TextNode(LongText)>>)

ScriptBlock == Elem("script", <<TextNode(<<"x">>)>>)

Blocks ==
  {NavBlock, ArticleBlock, TeaserBlock, BlankBlock, MainBlock, ContentBlock, RoleBlock,
   IdBlock, ShortParagraph, LongParagraph, ScriptBlock}

MaxBlocks == 2

Document(blocks) == Elem("#document", blocks)

Docs == {Document(bs) : bs \in UNION {[1..n -> Blocks] : n \in 1..MaxBlocks}}

\* the HTML of a node
RECURSIVE Render(_)
RECURSIVE RenderList(_)
Render(n) ==
  IF n.tag = "#text" THEN n.text
  ELSE IF n.tag = "#document" THEN RenderList(n.kids)
  ELSE <<"<", n.tag>>
       \o (IF n.class # "" THEN <<" ", "class", "=", n.class>> ELSE EmptyStr)
       \o (IF n.id # "" THEN <<" ", "id", "=", n.id>> ELSE EmptyStr)
       \o (IF n.role # "" THEN <<" ", "role", "=", n.role>> ELSE EmptyStr)
       \o <<">">> \o RenderList(n.kids) \o <<"<", "/", n.tag, ">">>

RenderList(kids) ==
  IF kids = << >> THEN EmptyStr ELSE Render(Head(kids)) \o RenderList(Tail(kids))

\* goquery.NewDocumentFromReader: the tree whose HTML the body is
NewDocumentFromReader(html) == CHOOSE d \in Docs : Render(d) = html

DocPages == {Render(d) : d \in Docs}

(***************************************************************************)
(* backend/internal/service: the scraper that parses the page              *)
(***************************************************************************)
\* the elements below n, in document order
RECURSIVE Descendants(_)
RECURSIVE DescendantsOfList(_)
Descendants(n) == DescendantsOfList(n.kids)

DescendantsOfList(kids) ==
  IF kids = << >> THEN << >>
  ELSE <<Head(kids)>> \o Descendants(Head(kids)) \o DescendantsOfList(Tail(kids))

\* a selector is a tag name, a class, an id or a role attribute
TagSel(t) == [kind |-> "tag", v |-> t]

ClassSel(c) == [kind |-> "class", v |-> c]

IdSel(i) == [kind |-> "id", v |-> i]

RoleSel(r) == [kind |-> "role", v |-> r]

Matches(n, sel) ==
  /\ n.tag # "#text"
  /\ CASE sel.kind = "tag" -> n.tag = sel.v
       [] sel.kind = "class" -> n.class = sel.v
       [] sel.kind = "id" -> n.id = sel.v
       [] sel.kind = "role" -> n.role = sel.v

\* Selection.Find: the descendants that match one of the selectors
Find(n, sels) == SelectSeq(Descendants(n), LAMBDA d : \E sel \in sels : Matches(d, sel))

\* Selection.Text: the characters of every text node below n
RECURSIVE NodeText(_)
RECURSIVE NodeTextOfList(_)
NodeText(n) == IF n.tag = "#text" THEN n.text ELSE NodeTextOfList(n.kids)

NodeTextOfList(kids) ==
  IF kids = << >> THEN EmptyStr ELSE NodeText(Head(kids)) \o NodeTextOfList(Tail(kids))

\* Selection.Remove: the tree without the elements that match
RECURSIVE Remove(_, _)
RECURSIVE RemoveFromList(_, _)
Remove(n, sels) == [n EXCEPT !.kids = RemoveFromList(n.kids, sels)]

RemoveFromList(kids, sels) ==
  IF kids = << >> THEN << >>
  ELSE IF \E sel \in sels : Matches(Head(kids), sel) THEN RemoveFromList(Tail(kids), sels)
  ELSE <<Remove(Head(kids), sels)>> \o RemoveFromList(Tail(kids), sels)

\* strings.TrimSpace
RECURSIVE TrimRight(_)
TrimRight(s) ==
  IF s # EmptyStr /\ s[Len(s)] = " " THEN TrimRight(SubSeq(s, 1, Len(s) - 1)) ELSE s

TrimSpace(s) == TrimRight(Drop(s, FirstNonSpace(s, 1)))

unwantedSelectors ==
  {TagSel(t) : t \in {"script", "style", "nav", "header", "footer", "aside", "form",
                      "iframe", "noscript"}}

articleSelectors ==
  <<TagSel("article"), RoleSel("main"), ClassSel("article-content"),
    ClassSel("post-content"), ClassSel("entry-content"), ClassSel("content"),
    TagSel("main"), IdSel("content"), ClassSel("story-body"), ClassSel("article-body")>>

textSelectors == {TagSel(t) : t \in {"p", "h1", "h2", "h3", "h4", "h5", "h6", "li"}}

\* what the inner Each writes for a sequence of elements: the trimmed text of
\* each one that has any and is long enough, followed by a space
RECURSIVE WriteTexts(_, _)
WriteTexts(elems, minLen) ==
  IF elems = << >> THEN EmptyStr
  ELSE LET text == TrimSpace(NodeText(Head(elems)))
       IN (IF text # EmptyStr /\ ByteLen(text) > minLen THEN text \o Str(" ") ELSE EmptyStr)
          \o WriteTexts(Tail(elems), minLen)

\* what the outer Each writes for the elements one selector matched
RECURSIVE WriteMatches(_)
WriteMatches(matched) ==
  IF matched = << >> THEN EmptyStr
  ELSE WriteTexts(Find(Head(matched), textSelectors), 0) \o WriteMatches(Tail(matched))

SelectorContent(doc, sel) == WriteMatches(Find(doc, {sel}))

\* the loop, had it stopped after the first selector that matched an element
RECURSIVE WalkSelectorsFirstMatch(_, _)
WalkSelectorsFirstMatch(doc, i) ==
  IF i > Len(articleSelectors) THEN EmptyStr
  ELSE IF Find(doc, {articleSelectors[i]}) # << >>
    THEN SelectorContent(doc, articleSelectors[i])
  ELSE WalkSelectorsFirstMatch(doc, i + 1)

\* the loop over articleSelectors from position i: stops after the first
\* selector that wrote something (foundContent)
RECURSIVE WalkSelectors(_, _)
WalkSelectors(doc, i) ==
  IF i > Len(articleSelectors) THEN EmptyStr
  ELSE LET written == SelectorContent(doc, articleSelectors[i])
       IN IF written # EmptyStr THEN written ELSE WalkSelectors(doc, i + 1)

\* the text before the final whitespace clean-up
ContentWritten(doc) ==
  LET written == WalkSelectors(doc, 1)
      foundContent == written # EmptyStr
  IN IF foundContent THEN written ELSE WriteTexts(Find(doc, {TagSel("p")}), 50)

extractContentWithGoquery(html) ==
  LET doc == Remove(NewDocumentFromReader(html), unwantedSelectors)
  IN TrimSpace(CollapseWhitespace(ContentWritten(doc)))

\* ScrapeURL of this scraper, after the URL was found valid
ScrapeResultGoquery(out) ==
  IF out.kind = "error"
    THEN [err |-> WrapDetail(ErrURLScrapingFailed, out.cause), content |-> EmptyStr]
  ELSE IF out.status # 200
    THEN [err |-> Wrap(ErrURLScrapingFailed, out.status), content |-> EmptyStr]
  ELSE LET content == extractContentWithGoquery(out.body)
       IN IF content = EmptyStr
            THEN [err |-> WrapDetail(ErrURLScrapingFailed, "no content extracted"),
                  content |-> EmptyStr]
            ELSE [err |-> NoErr, content |-> content]

FetchReturnGoquery(w, out) ==
  /\ pc[w] = "fetching"
  /\ LET res == ScrapeResultGoquery(out)
     IN IF res.err # NoErr
          THEN /\ err' = Set(err, w, res.err)
               /\ pc' = Set(pc, w, "respond")
               /\ UNCHANGED textContent
          ELSE /\ textContent' = Set(textContent, w, res.content)
               /\ pc' = Set(pc, w, "predict")
               /\ UNCHANGED err
  /\ log' = Logged(log, w, "fetched", out)
  /\ UNCHANGED <<clientVars, redirects, handler, req, startTime, pred, getID, got, list, status, body, heap,
                 predictions, mu, uuidCounter, saveErr, savedAs>>

\* one URL request at a time, against a site that serves any of the documents
DocOutcomes == {[kind |-> "response", status |-> 200, body |-> page] : page \in DocPages}

DocRequests == {[Type |-> "url", Content |-> URLOk]}

\* the scraper that strips tags
NextExtract ==
  \/ \E r \in DocRequests : HandleAnalyze(1, r)
  \/ \E out \in DocOutcomes : FetchReturn(1, out)
  \/ \E t \in Times : PredictSend(1, t)
  \/ RespondAnalyze(1)

SpecExtract == Init /\ [][NextExtract]_vars

\* the scraper that parses the page
NextGoquery ==
  \/ \E r \in DocRequests : HandleAnalyze(1, r)
  \/ \E out \in DocOutcomes : FetchReturnGoquery(1, out)
  \/ \E t \in Times : PredictSend(1, t)
  \/ RespondAnalyze(1)

SpecGoquery == Init /\ [][NextGoquery]_vars


(***************************************************************************)
(* What the extractors keep of a page                                      *)
(***************************************************************************)
\* strings.Contains for a substring
HasText(s, sub) == Index(s, sub) # -1

Blocks_Of(d) == {d.kids[i] : i \in 1..Len(d.kids)}

\* the page w fetched, when the fetch was answered 200 with one of the documents
FetchedDoc(w) ==
  /\ Happened(w, "fetched")
  /\ OutcomeOf(w, "fetched").kind = "response"
  /\ OutcomeOf(w, "fetched").status = 200
  /\ OutcomeOf(w, "fetched").body \in DocPages

DocOf(w) == NewDocumentFromReader(OutcomeOf(w, "fetched").body)

\* C24: for a fetched document that holds an article with a paragraph and a
\* nav element with boilerplate, the extracted text includes the paragraph's
\* text and none of the text that occurs only inside nav.
C24_NavTextExcluded ==
  \A w \in Workers :
    (/\ FetchedDoc(w)
     /\ {ArticleBlock, NavBlock} \subseteq Blocks_Of(DocOf(w)))
      => /\ err[w] = NoErr
         /\ HasText(textContent[w], <<"Hello", " ", "world">>)
         /\ ~HasText(textContent[w], <<"Home">>)


(***************************************************************************)
(* Redirects                                                               *)
(***************************************************************************)
\* URL requests against sites that redirect any number of times before they
\* answer (or fail)
NextRedirect ==
  \/ \E w \in Workers, r \in DocRequests : HandleAnalyze(w, r)
  \/ \E w \in Workers : FetchRedirect(w)
  \/ \E w \in Workers, out \in FetchOutcomes : FetchReturn(w, out)
  \/ \E w \in Workers : RespondAnalyze(w)

SpecRedirect == Init /\ [][NextRedirect]_vars

\* the HTTP requests one ScrapeURL call has issued
RequestsIssued(w) == IF Happened(w, "fetch") THEN redirects[w] + 1 ELSE 0

RedirectAborted(w) ==
  /\ Happened(w, "fetched")
  /\ OutcomeOf(w, "fetched") = TooManyRedirects

\* C25: a fetch whose redirect chain reaches 10 hops is aborted and ScrapeURL
\* fails with ScrapeFailed; one ScrapeURL call never issues more than 10
\* requests; a chain of fewer than 10 redirects is followed to its final
\* response (the abort happens at the tenth redirect and at no earlier one).
C25_RedirectCap ==
  \A w \in Workers :
    /\ RequestsIssued(w) <= 10
    /\ RedirectAborted(w) =>
         /\ redirects[w] = 9
         /\ ErrorsIs(err[w], ErrURLScrapingFailed)
         /\ pc[w] \in {"respond", "done"}
    /\ (Happened(w, "fetched") /\ ~RedirectAborted(w)) => redirects[w] <= 9

C25_Witness ==
  \E w, v \in Workers :
    /\ RedirectAborted(w) /\ RequestsIssued(w) = 10 /\ pc[w] = "done"
    /\ Happened(v, "fetched") /\ redirects[v] = 9
    /\ OutcomeOf(v, "fetched").kind = "response" /\ OutcomeOf(v, "fetched").status = 200
    /\ err[v] = NoErr


(***************************************************************************)
(* Which container the parsing scraper takes its text from                 *)
(***************************************************************************)
\* the fetched document after the unwanted elements are removed
Cleaned(w) == Remove(DocOf(w), unwantedSelectors)

\* the positions of the selectors that match an element of doc
MatchingSelectors(doc) ==
  {i \in 1..Len(articleSelectors) : Find(doc, {articleSelectors[i]}) # << >>}

\* the positions of the selectors under which some paragraph, heading or list
\* item has text
YieldingSelectors(doc) ==
  {i \in 1..Len(articleSelectors) : SelectorContent(doc, articleSelectors[i]) # EmptyStr}

First(S) == CHOOSE i \in S : \A j \in S : i <= j

LongParagraphs(doc) == WriteTexts(Find(doc, {TagSel("p")}), 50)

\* C26 as stated: the extractor uses only the first selector that matches any
\* element, and falls back to the paragraphs longer than 50 characters only
\* when no selector matched any element.
C26_FirstMatchingSelector ==
  \A w \in Workers :
    FetchedDoc(w) =>
      LET doc == Cleaned(w)
      IN textContent[w] =
           CollapseWhitespace(
             IF MatchingSelectors(doc) # {}
               THEN SelectorContent(doc, articleSelectors[First(MatchingSelectors(doc))])
               ELSE LongParagraphs(doc))

\* C26, amended: the extractor uses only the first selector under which a
\* paragraph, heading or list item has text: selectors before it wrote
\* nothing, selectors after it are not consulted, and the fallback to the
\* paragraphs longer than 50 characters is taken exactly when no selector
\* yielded any text.
C26_FirstYieldingSelector ==
  \A w \in Workers :
    FetchedDoc(w) =>
      LET doc == Cleaned(w)
      IN textContent[w] =
           CollapseWhitespace(
             IF YieldingSelectors(doc) # {}
               THEN SelectorContent(doc, articleSelectors[First(YieldingSelectors(doc))])
               ELSE LongParagraphs(doc))

\* a page whose article element has no text-bearing descendant and whose main
\* element has: the main element's text is returned
C26_Witness ==
  \E w \in Workers :
    /\ FetchedDoc(w)
    /\ DocOf(w) = Document(<<TeaserBlock, MainBlock>>)
    /\ 1 \in MatchingSelectors(Cleaned(w))
    /\ First(YieldingSelectors(Cleaned(w))) = 7
    /\ textContent[w] = <<"Title", " ", "Body">>
    /\ pc[w] = "predicting"


(***************************************************************************)
(* The store grows by completed saves and by nothing else                  *)
(***************************************************************************)
\* the AnalyzeNews calls whose SavePrediction has returned nil
SavedCalls ==
  {w \in Workers : /\ Analyzing(w)
                   /\ Happened(w, "save")
                   /\ pc[w] \in {"saved", "respond", "done"}
                   /\ saveErr[w] = NoErr}

HistoryReads(w) == pc[w] = "reading" /\ handler[w] = "history" /\ pc'[w] = "respond"

StoreCountsSaves ==
  /\ Cardinality(DOMAIN predictions) = Cardinality(SavedCalls)
  /\ \A w \in Workers :
       /\ (Returned(w) /\ err[w] # NoErr) => w \notin Stored
       /\ (handler[w] = "history" /\ pc[w] = "done") =>
            /\ body[w].count = Len(list[w])
            /\ body[w].count <= Cardinality(SavedCalls)
  /\ \A id \in DOMAIN savedAs :
       /\ id \in DOMAIN predictions
       /\ heap[predictions[id]] = savedAs[id]

\* C27: with only AnalyzeNews, GetPrediction, GetHistory and HealthCheck
\* calls, in any interleaving, the number of store entries equals the number
\* of AnalyzeNews calls whose save has completed successfully, GetHistory
\* reads exactly that many, no request that returned an error adds an entry,
\* and no entry disappears or changes.
C27_StoreCountsSaves ==
  /\ []StoreCountsSaves
  /\ [][\A w \in Workers :
          HistoryReads(w) => Len(list'[w]) = Cardinality(SavedCalls)]_vars
  /\ [][DOMAIN predictions \subseteq DOMAIN predictions']_vars

C27_Witness ==
  \E w, v \in Workers :
    /\ w \in SavedCalls /\ pc[w] = "done"
    /\ Cardinality(DOMAIN predictions) = 1
    /\ handler[v] = "history" /\ pc[v] = "done" /\ body[v].count = 1


(***************************************************************************)
(* Which statuses count as success                                         *)
(***************************************************************************)
\* call e of w was answered with a 2xx status other than 200
OtherSuccessStatus(w, e) ==
  /\ Happened(w, e)
  /\ OutcomeOf(w, e).kind = "response"
  /\ OutcomeOf(w, e).status \in 201..299

\* C28: only status 200 counts as success for outbound calls: any other 2xx
\* status from the fetched page makes ScrapeURL fail with ScrapeFailed, and
\* from the delegate makes Predict fail with PredictionFailed and
\* HealthCheck fail with ServiceUnavailable.
C28_Only200IsSuccess ==
  \A w \in Workers :
    /\ (Analyzing(w) /\ OtherSuccessStatus(w, "fetched")) =>
         /\ Returned(w)
         /\ ErrorsIs(err[w], ErrURLScrapingFailed)
         /\ err[w].status = OutcomeOf(w, "fetched").status
         /\ ~Happened(w, "predict")
    /\ (Analyzing(w) /\ OtherSuccessStatus(w, "predicted")) =>
         /\ Returned(w)
         /\ ErrorsIs(err[w], ErrPredictionFailed)
         /\ err[w].status = OutcomeOf(w, "predicted").status
         /\ w \notin Stored
    /\ (handler[w] = "health" /\ OtherSuccessStatus(w, "probed")) =>
         /\ ErrorsIs(err[w], ErrMLServiceUnavailable)
         /\ pc[w] = "done" => body[w].ml_service = "down"

C28_Witness ==
  \E w, v \in Workers :
    /\ Analyzing(w) /\ pc[w] = "done" /\ OtherSuccessStatus(w, "fetched")
    /\ OutcomeOf(w, "fetched").status = 204
    /\ Analyzing(v) /\ pc[v] = "done" /\ OtherSuccessStatus(v, "predicted")
    /\ OutcomeOf(v, "predicted").status = 201


(***************************************************************************)
(* The client: form, provider, use case, repository, data source           *)
(***************************************************************************)
\* what can be typed into the form's field
FormValues ==
  {EmptyStr, Str(" "), <<"Short">>, <<"Short", " ">>, LongText, URLOk,
   <<"http", ":", "/", "/">> \o LongText, <<"https", ":", "/", "/">> \o LongText,
   <<"ftp", ":", "/", "/">> \o LongText, LongText \o Str(" ") \o LongText}

SelectedTypes == {"text", "url"}

\* Uri.hasScheme
hasScheme(value) == Len(value) >= 2 /\ value[1] \in AlphaToks /\ value[2] = ":"

\* the field's validator: the message shown, or "null" when the value passes
validator(value, selectedType) ==
  IF TrimSpace(value) = EmptyStr
    THEN (IF selectedType = "text" THEN "Please enter content" ELSE "Please enter URL")
  ELSE IF selectedType = "text" /\ ByteLen(TrimSpace(value)) < 50
    THEN "Content must be at least 50 characters"
  ELSE IF selectedType = "url" /\ ~hasScheme(value)
    THEN "Please enter a valid URL"
  ELSE "null"

\* json.NewEncoder(w).Encode of a Prediction, by its keys
PredictionJSON(p) ==
  [id |-> p.ID, article_id |-> p.ArticleID, request_type |-> p.RequestType,
   original_content |-> p.OriginalContent, result |-> p.Result,
   confidence |-> p.Confidence, model_version |-> p.ModelVersion,
   processing_time_ms |-> p.ProcessingTime, created_at |-> p.CreatedAt]

\* what the analyze handler writes for a payload
EncodeBody(b) ==
  IF b.kind = "prediction"
    THEN [success |-> TRUE, prediction |-> PredictionJSON(b.prediction)]
    ELSE [error |-> "message"]

AnsweredPrediction ==
  [ZeroPrediction EXCEPT !.ID = UUIDString(1), !.Result = <<"FAKE">>, !.Confidence = 1,
                         !.ModelVersion = <<"v1">>, !.RequestType = "text",
                         !.CreatedAt = 1]

\* what the backend can answer to POST /api/analyze, and the ways the request
\* can fail before an answer arrives
BackendResponses ==
  {[kind |-> "response", status |-> 200,
    data |-> EncodeBody([kind |-> "prediction", prediction |-> AnsweredPrediction])]}
  \cup {[kind |-> "response", status |-> st, data |-> EncodeBody(ErrorBody)] :
          st \in {400, 500, 502, 503}}
  \cup {[kind |-> "error", cause |-> c] : c \in Causes}

\* an answer that is the prediction object itself, as a server other than this
\* backend could send
BareResponses ==
  {[kind |-> "response", status |-> 200, data |-> PredictionJSON(AnsweredPrediction)]}

\* BaseOptions.validateStatus
validateStatus(st) == st < 500

\* PredictionModel.fromJson: the casts 'as String' and 'as num' throw on a
\* missing key
fromJsonThrows(json) == ~({"id", "result", "confidence", "created_at"} \subseteq DOMAIN json)

fromJson(json) ==
  [kind |-> "prediction", id |-> json.id, result |-> json.result,
   confidence |-> json.confidence,
   modelVersion |-> IF "model_version" \in DOMAIN json THEN json.model_version
                    ELSE <<"v1.0">>,
   createdAt |-> json.created_at]

\* the button: the form is validated, and a valid value goes to the provider,
\* which enters loading and builds the article
PressAnalyze(value, selectedType) ==
  /\ clientPc \in {"idle", "finished", "threw"}
  /\ validator(value, selectedType) = "null"
  /\ state' = "loading"
  /\ errorMessage' = "null"
  /\ article' = [content |-> TrimSpace(value), type |-> selectedType]
  /\ sent' = Null
  /\ received' = Null
  /\ clientPc' = "usecase"
  /\ UNCHANGED <<serverVars, currentPrediction>>

\* AnalyzeNewsUseCase.call: a Left is folded by the provider into the error
\* state, otherwise the repository hands the article to the data source
UseCase ==
  /\ clientPc = "usecase"
  /\ IF TrimSpace(article.content) = EmptyStr
       THEN /\ state' = "error"
            /\ errorMessage' = "Content cannot be empty"
            /\ clientPc' = "finished"
            /\ UNCHANGED sent
     ELSE IF ByteLen(article.content) < 50
       THEN /\ state' = "error"
            /\ errorMessage' = "Content too short (minimum 50 characters)"
            /\ clientPc' = "finished"
            /\ UNCHANGED sent
       ELSE /\ sent' = [type |-> article.type, content |-> article.content]
            /\ clientPc' = "awaiting"
            /\ UNCHANGED <<state, errorMessage>>
  /\ UNCHANGED <<serverVars, article, currentPrediction, received>>

\* the answer arrives: ApiClient.post throws an Exception on a transport
\* failure or a status validateStatus refuses, which the repository turns into
\* a ServerFailure; otherwise fromJson is applied to the payload, and what it
\* throws is no Exception, so it leaves analyzeNews before the fold
ResponseArrives(resp) ==
  /\ clientPc = "awaiting"
  /\ received' = resp
  /\ IF resp.kind = "error" \/ ~validateStatus(resp.status)
       THEN /\ state' = "error"
            /\ errorMessage' = "ServerFailure"
            /\ clientPc' = "finished"
            /\ UNCHANGED currentPrediction
     ELSE IF fromJsonThrows(resp.data)
       THEN /\ clientPc' = "threw"
            /\ UNCHANGED <<state, errorMessage, currentPrediction>>
       ELSE /\ state' = "success"
            /\ currentPrediction' = fromJson(resp.data)
            /\ clientPc' = "finished"
            /\ UNCHANGED errorMessage
  /\ UNCHANGED <<serverVars, article, sent>>

NextClient ==
  \/ \E value \in FormValues, selectedType \in SelectedTypes : PressAnalyze(value, selectedType)
  \/ UseCase
  \/ \E resp \in BackendResponses \cup BareResponses : ResponseArrives(resp)

SpecClient == Init /\ [][NextClient]_vars

\* the call to analyzeNews is over, normally or by a throw
CallFinished == clientPc \in {"finished", "threw"}

\* C29: every call to NewsAnalysisProvider.analyzeNews first enters loading
\* and, when the call completes, leaves the provider in success or error, for
\* every response the backend can send; the provider never remains in loading
\* after the call has finished.
C29_NeverStuckLoading ==
  /\ clientPc \in {"usecase", "awaiting"} => state = "loading"
  /\ (CallFinished /\ received \in BackendResponses) => state \in {"success", "error"}

\* C30: every input the form's validator accepts is forwarded by
\* AnalyzeNewsUseCase to the repository; for type "url" a non-empty value with
\* a scheme is enough, whatever its length.
C30_AcceptedInputForwarded ==
  ((CallFinished \/ clientPc = "awaiting")
     /\ validator(article.content, article.type) = "null")
    => sent = [type |-> article.type, content |-> article.content]

====
